---- MODULE Spec2Model ----
(***************************************************************************)
(* The page controllers of the portfolio CMS (Skills, Experience,          *)
(* Education, Certifications, Projects, User Details) as one state         *)
(* machine.  Every entity page is a React component holding the same state *)
(* (loaded list, modal flag, editing target, isSubmitting, confirmDialog)  *)
(* and the same handlers (loadData, handleOpenModal, handleCloseModal,     *)
(* onSubmit, handleDelete, confirmDelete); `page` selects the component.   *)
(* The user-details page holds one record and a form without a modal.  An  *)
(* async handler is a task that is suspended at each await: a request is   *)
(* sent, the server handles it, the response is delivered and the          *)
(* continuation runs.                                                      *)
(***************************************************************************)
EXTENDS Integers, Sequences, FiniteSets, TLC

VARIABLES
    page,           \* which page component is mounted
    server,         \* the server's collection of the page's entity (set of ids)
    items,          \* useState list of the page: experiences / skills / projects ...
    skills,         \* useState skills list of the pages that load two lists
    isLoading,
    isModalOpen,
    editing,        \* editingExperience / editingSkill / ... / userDetails
                    \* (an id, or NoId for null)
    isSubmitting,
    confirmDialog,  \* [open, id]
    form,           \* react-hook-form field values
    errors,         \* formState.errors: the fields that carry a message
    isCurrentJob,   \* Experience page only
    preview,        \* iconPreview (Skills) / coverPreview (Projects) / photoPreview
    socialMedias,   \* User details: the links shown, "icon|url" each
    previewImages,  \* Projects: the content-image previews shown
    previewFiles,   \* Projects: the content-image files to upload
    reads,          \* Projects: FileReader batches of handlePreviewImagesChange still reading
    tasks,          \* the suspended async handlers and their requests
    quota,          \* mutations the user may still start (bounds the run)
    notice,         \* the toast raised by the last step
    event,          \* the last step taken
    localStorage,   \* the browser's durable storage: auth_token, user
    store,          \* useAuthStore: user, isAuthenticated
    loginPage,      \* the Login component: isLoading and its login request
    call,           \* a resource-client call: its request and its outcome
    searchQuery     \* useState searchQuery of the entity pages

vars == <<page, server, items, skills, isLoading, isModalOpen, editing,
          isSubmitting, confirmDialog, form, errors, isCurrentJob, preview,
          socialMedias, previewImages, previewFiles, reads, tasks, quota, notice,
          event, localStorage, store, loginPage, call, searchQuery>>

\* The session, the client call under test and the search query, which the
\* handlers of the page controllers leave alone.
sessionVars == <<localStorage, store, loginPage, call, searchQuery>>

----------------------------------------------------------------------------
(* Bounds of the model *)

MaxOps == 2          \* creates, updates and deletes started in one run
MaxDeletes == 1      \* confirmDelete calls in flight together
MaxFiles == 2        \* content-image files pending upload
MaxReads == 1        \* file selections whose previews are still being read
MaxSocial == 2       \* social-media links shown
MaxTitle == 4        \* characters of a project title typed
MaxQuery == 2        \* characters of a search query typed

----------------------------------------------------------------------------
(* Values *)

Pages == {"skills", "experience", "education", "certifications", "projects"}
UserPage == "user"

\* The pages whose loadData fetches the entity list and the skills list.
TwoLists(p) == p \in {"experience", "certifications", "projects"}

\* Ids the server may hold; SeedIds exist when the page is mounted.
Ids == {"a", "b"}
SeedIds == {"a"}
NoId == ""
SkillIds == {"s1", "s2"}
UserId == "u"                      \* the one user-details record

NoNotice == [type |-> "none", msg |-> ""]
Success(m) == [type |-> "success", msg |-> m]
Failure(m) == [type |-> "error", msg |-> m]

\* A GET request: not issued, sent, answered by the server (the response
\* travelling back with the server's collection of that moment), delivered.
NoReq == [st |-> "none", data |-> {}]
Sent == [st |-> "sent", data |-> {}]
Resp(d) == [st |-> "resp", data |-> d]
Got(d) == [st |-> "got", data |-> d]

NoPayload == [op |-> "none"]

\* Task 0 is the useEffect mount call of loadData, task 1 the onSubmit call
\* (the submit button is disabled while isSubmitting), the others are the
\* confirmDelete calls, which nothing serialises.  A task's mutation request
\* (mut) is not issued, sent, answered by the server, or delivered.
MountTask == 0
SubmitTask == 1
DeleteTasks == 2 .. (MaxDeletes + 1)
TaskIds == {MountTask, SubmitTask} \cup DeleteTasks

IdleTask == [pc |-> "idle", op |-> "none", target |-> NoId, payload |-> NoPayload,
             mut |-> "none", e |-> NoReq, s |-> "none"]

----------------------------------------------------------------------------
(* The session: who is signed in, and what the browser keeps of it *)

AuthUsers == {"ann", "bob"}
NoUser == ""                       \* user: null
NoToken == ""                      \* getItem('auth_token'): null
NoItem == <<>>                     \* getItem('user'): null
TokenOf(user) == "token-" \o user  \* the token the server issues to a user

\* JSON.stringify(user) and JSON.parse(userStr)
JSONstringify(user) == <<"json", user>>
JSONparse(str) == str[2]

\* The Login component before a submit: useState(false), no request out.
IdleLogin == [isLoading |-> FALSE, req |-> "none", identifier |-> <<>>,
              password |-> <<>>]

EmptyStorage == [auth_token |-> NoToken, user |-> NoItem]

\* authService.getStoredUser()
getStoredUser(storage) ==
    IF storage.user # NoItem THEN JSONparse(storage.user) ELSE NoUser

\* authService.isAuthenticated(): !!this.getStoredToken()
isAuthenticated(storage) == storage.auth_token # NoToken

\* The state useAuthStore is created with, and the state checkAuth sets.
StoredSession(storage) ==
    [user |-> getStoredUser(storage), isAuthenticated |-> isAuthenticated(storage)]

\* login(): localStorage.setItem('auth_token', token); setItem('user', ...)
PersistSession(user, token) ==
    [auth_token |-> token, user |-> JSONstringify(user)]

\* A signed-in session, as the pages behind ProtectedRoute are shown in.
SignedIn(user) ==
    /\ localStorage = PersistSession(user, TokenOf(user))
    /\ store = [user |-> user, isAuthenticated |-> TRUE]
    /\ loginPage = IdleLogin

\* A response envelope {success, data?, error?}: whether data is present,
\* and the error string ("" when the server gives none).
Envelopes == [success : BOOLEAN, data : BOOLEAN, error : {"", "server says no"}]
NoResponse == [success |-> FALSE, data |-> FALSE, error |-> ""]
\* A call of a client method: not made, sent, returned a value, or threw an
\* error; `via` tells a response from a transport failure (no response).
NoCall == [service |-> "", method |-> "", st |-> "none", via |-> "",
           response |-> NoResponse, value |-> "", error |-> ""]

----------------------------------------------------------------------------
(* Program constants *)

\* new Date().getFullYear() on the day of the run
CurrentYear == 2026
MinYear == 1900
YearSlack == 10
MaxYearAllowed == CurrentYear + YearSlack

----------------------------------------------------------------------------
(* Strings.  Titles, slugs and links are sequences of characters over a    *)
(* small alphabet, so that the regular expressions are computed; the other *)
(* text fields only distinguish the empty string.                          *)

NoYear == <<>>                     \* endYear: null
SomeYear(y) == <<y>>

NoFile == "nofile"                 \* an empty FileList
NoImage == "noimage"               \* a null image reference / preview

IsLowerAlnum(c) == c \in {"a", "b", "1"}          \* [a-z0-9]
IsAlpha(c) == c \in {"a", "b", "A", "B", "h"}

\* /^[a-z0-9-]+$/
SlugRegex(s) == Len(s) >= 1 /\ \A i \in 1 .. Len(s) : IsLowerAlnum(s[i]) \/ s[i] = "-"

\* z.string().url(): the string parses as an absolute URL, that is, it
\* starts with a scheme (a letter, then letters) followed by ":".
IsUrl(s) ==
    \E i \in 2 .. Len(s) :
        /\ s[i] = ":"
        /\ \A j \in 1 .. (i - 1) : IsAlpha(s[j])

YearInRange(y) == y >= MinYear /\ y <= MaxYearAllowed

\* The characters a title is typed from: upper and lower case letters, a
\* digit, a space, a punctuation mark and a hyphen.
TitleAlphabet == {"A", "b", "1", " ", "!", "-"}

\* String.prototype.toLowerCase, character by character
toLowerCase(c) == CASE c = "A" -> "a" [] c = "B" -> "b" [] OTHER -> c

\* .replace(/[^a-z0-9]+/g, '-'): every maximal run of characters outside
\* [a-z0-9] becomes one hyphen.
RECURSIVE SkipRun(_)
SkipRun(str) ==
    IF str # <<>> /\ ~IsLowerAlnum(Head(str)) THEN SkipRun(Tail(str)) ELSE str
RECURSIVE ReplaceRuns(_)
ReplaceRuns(str) ==
    IF str = <<>> THEN <<>>
    ELSE IF IsLowerAlnum(Head(str)) THEN <<Head(str)>> \o ReplaceRuns(Tail(str))
    ELSE <<"-">> \o ReplaceRuns(SkipRun(Tail(str)))

\* .replace(/(^-|-$)/g, ''): a hyphen at the start and a hyphen at the end
\* are removed.
StripEdges(str) ==
    LET s1 == IF str # <<>> /\ Head(str) = "-" THEN Tail(str) ELSE str
    IN  IF s1 # <<>> /\ s1[Len(s1)] = "-" THEN SubSeq(s1, 1, Len(s1) - 1) ELSE s1

\* A derivation that leaves the hyphens at the edges in place.
DeriveSlugKeepingEdges(titleValue) ==
    ReplaceRuns([i \in 1 .. Len(titleValue) |-> toLowerCase(titleValue[i])])

\* The slug the effect derives from the watched title.
DeriveSlug(titleValue) ==
    StripEdges(ReplaceRuns([i \in 1 .. Len(titleValue) |-> toLowerCase(titleValue[i])]))

----------------------------------------------------------------------------
(* The entities the server holds.  The client only reads them; their       *)
(* content is fixed sample data, one record per id.                        *)

\* A nullable text that is null, a nullable link that is null, a nullable
\* timestamp that is null.  A timestamp is <<day, hour>> in the browser's
\* time zone.
Null == "<null>"
NullLink == <<"<null>">>
NoTimestamp == <<>>

SkillOf(id) == [id |-> id, name |-> "x", icon |-> "icon-of-" \o id]

\* The association records {skill: Skill}[] of an entity; <<>> also stands
\* for an association field the response leaves out.
SkillsOf(id) ==
    IF id = "a" THEN <<[skill |-> SkillOf("s2")], [skill |-> SkillOf("s1")]>>
    ELSE <<>>

ExperienceOf(id) ==
    [id |-> id, startYear |-> 2020,
     endYear |-> IF id = "b" THEN SomeYear(2021) ELSE NoYear,
     companyName |-> "x", location |-> "x",
     description |-> IF id = "a" THEN Null ELSE "x",
     experienceSkills |-> SkillsOf(id)]
EducationOf(id) ==
    [id |-> id, year |-> "x", institutionName |-> "x",
     description |-> IF id = "a" THEN Null ELSE "x"]
CertificationOf(id) ==
    [id |-> id, name |-> "x", issuingOrganization |-> "x", year |-> 2020,
     description |-> IF id = "a" THEN Null ELSE "x",
     certificateLink |-> IF id = "b" THEN <<"h", ":", "a">> ELSE NullLink,
     certificationSkills |-> SkillsOf(id)]
\* `published` is read from the response with a cast: the Project type does
\* not declare it; FALSE also stands for a response without it.
ProjectOf(id) ==
    [id |-> id, title |-> <<"A", " ", "b">>, slug |-> <<"a", "-", "b">>,
     description |-> "x", content |-> "x",
     coverImage |-> IF id = "b" THEN NoImage ELSE "cover-of-" \o id,
     contentImages |-> IF id = "a" THEN <<"r1", "r2">>
                       ELSE IF id = "b" THEN <<>> ELSE <<"r3">>,
     publishedAt |-> IF id = "a" THEN <<1, 10>> ELSE NoTimestamp,
     published |-> id = "a",
     projectSkills |-> SkillsOf(id)]

UserOf(id) ==
    [id |-> id, name |-> "x", role |-> "x", description |-> "",
     socialMedias |-> << <<"g", "|", "u">> >>, profilePhoto |-> "photo-of-" \o id]

----------------------------------------------------------------------------
(* Forms *)

\* The field values handleOpenModal() gives a new entity: reset({...}).
\* handleCloseModal's reset() leaves the same or undefined values, none of
\* which is read before the next handleOpenModal overwrites it.
DefaultForm(p) ==
    CASE p = "skills" -> [name |-> "", icon |-> NoFile]
      [] p = "education" -> [year |-> "", institutionName |-> "", description |-> ""]
      [] p = "experience" ->
            [startYear |-> CurrentYear, endYear |-> NoYear,
             companyName |-> "", location |-> "", description |-> "",
             skillIds |-> <<>>]
      [] p = "certifications" ->
            [name |-> "", issuingOrganization |-> "", year |-> CurrentYear,
             certificateLink |-> <<>>, description |-> "", skillIds |-> <<>>]
      [] p = "projects" ->
            [title |-> <<>>, slug |-> <<>>, description |-> "", content |-> "",
             coverImage |-> NoFile, publishedAt |-> <<>>, published |-> FALSE,
             skillIds |-> <<>>]
      [] p = UserPage ->
            [name |-> "", role |-> "", description |-> "", profilePhoto |-> NoFile]

\* x || '' for a nullable text and for a nullable link
TextOrEmpty(x) == IF x = Null THEN "" ELSE x
LinkOrEmpty(x) == IF x = NullLink THEN <<>> ELSE x

\* records?.map(r => r.skill.id) || []
SkillIdsOf(records) == [i \in 1 .. Len(records) |-> records[i].skill.id]

\* format(new Date(publishedAt), 'yyyy-MM-dd'): the day, without the time
format(timestamp) == <<timestamp[1]>>

\* An edit form that leaves the skill selection as the form holds it.
EntityFormKeepingSkills(p, id, f) ==
    CASE p = "skills" -> [f EXCEPT !.name = SkillOf(id).name]
      [] p = "education" ->
            [f EXCEPT !.year = EducationOf(id).year,
                      !.institutionName = EducationOf(id).institutionName,
                      !.description = TextOrEmpty(EducationOf(id).description)]
      [] p = "experience" ->
            [f EXCEPT !.startYear = ExperienceOf(id).startYear,
                      !.endYear = ExperienceOf(id).endYear,
                      !.companyName = ExperienceOf(id).companyName,
                      !.description = TextOrEmpty(ExperienceOf(id).description),
                      !.location = ExperienceOf(id).location]
      [] p = "certifications" ->
            [f EXCEPT !.name = CertificationOf(id).name,
                      !.issuingOrganization = CertificationOf(id).issuingOrganization,
                      !.year = CertificationOf(id).year,
                      !.description = TextOrEmpty(CertificationOf(id).description),
                      !.certificateLink = LinkOrEmpty(CertificationOf(id).certificateLink)]
      [] p = "projects" ->
            [f EXCEPT !.title = ProjectOf(id).title,
                      !.slug = ProjectOf(id).slug,
                      !.description = ProjectOf(id).description,
                      !.content = ProjectOf(id).content,
                      !.publishedAt = IF ProjectOf(id).publishedAt # NoTimestamp
                                      THEN format(ProjectOf(id).publishedAt) ELSE <<>>,
                      !.published = ProjectOf(id).published]
      [] p = UserPage ->
            [f EXCEPT !.name = UserOf(id).name,
                      !.role = UserOf(id).role,
                      !.description = UserOf(id).description]

\* The setValue calls of handleOpenModal(entity) and of loadUserDetails: the
\* listed fields are overwritten, the others keep the value f holds.
EntityForm(p, id, f) ==
    CASE p = "skills" -> [f EXCEPT !.name = SkillOf(id).name]
      [] p = "education" ->
            [f EXCEPT !.year = EducationOf(id).year,
                      !.institutionName = EducationOf(id).institutionName,
                      !.description = TextOrEmpty(EducationOf(id).description)]
      [] p = "experience" ->
            [f EXCEPT !.startYear = ExperienceOf(id).startYear,
                      !.endYear = ExperienceOf(id).endYear,
                      !.companyName = ExperienceOf(id).companyName,
                      !.description = TextOrEmpty(ExperienceOf(id).description),
                      !.location = ExperienceOf(id).location,
                      !.skillIds = SkillIdsOf(ExperienceOf(id).experienceSkills)]
      [] p = "certifications" ->
            [f EXCEPT !.name = CertificationOf(id).name,
                      !.issuingOrganization = CertificationOf(id).issuingOrganization,
                      !.year = CertificationOf(id).year,
                      !.description = TextOrEmpty(CertificationOf(id).description),
                      !.certificateLink = LinkOrEmpty(CertificationOf(id).certificateLink),
                      !.skillIds = SkillIdsOf(CertificationOf(id).certificationSkills)]
      [] p = "projects" ->
            [f EXCEPT !.title = ProjectOf(id).title,
                      !.slug = ProjectOf(id).slug,
                      !.description = ProjectOf(id).description,
                      !.content = ProjectOf(id).content,
                      !.publishedAt = IF ProjectOf(id).publishedAt # NoTimestamp
                                      THEN format(ProjectOf(id).publishedAt) ELSE <<>>,
                      !.published = ProjectOf(id).published,
                      !.skillIds = SkillIdsOf(ProjectOf(id).projectSkills)]
      [] p = UserPage ->
            [f EXCEPT !.name = UserOf(id).name,
                      !.role = UserOf(id).role,
                      !.description = UserOf(id).description]

\* The zod schemas: the set of fields that get an error message.
skillSchema(f) == {k \in {"name"} : f[k] = ""}
educationSchema(f) == {k \in {"year", "institutionName"} : f[k] = ""}
experienceSchema(f) ==
    {k \in {"companyName", "location"} : f[k] = ""}
    \cup (IF YearInRange(f.startYear) THEN {} ELSE {"startYear"})
    \cup (IF f.endYear = NoYear \/ YearInRange(f.endYear[1]) THEN {} ELSE {"endYear"})
certificationSchema(f) ==
    {k \in {"name", "issuingOrganization"} : f[k] = ""}
    \cup (IF YearInRange(f.year) THEN {} ELSE {"year"})
    \cup (IF f.certificateLink = <<>> \/ IsUrl(f.certificateLink)
          THEN {} ELSE {"certificateLink"})
projectSchema(f) ==
    {k \in {"description", "content"} : f[k] = ""}
    \cup (IF Len(f.title) >= 1 THEN {} ELSE {"title"})
    \cup (IF SlugRegex(f.slug) THEN {} ELSE {"slug"})
userDetailsSchema(f) == {k \in {"name", "role"} : f[k] = ""}

\* A resolver that accepts every form.
ValidateNothing(p, f) == {}

\* zodResolver(schema): the errors of the page's form.
Validate(p, f) ==
    CASE p = "skills" -> skillSchema(f)
      [] p = "education" -> educationSchema(f)
      [] p = "experience" -> experienceSchema(f)
      [] p = "certifications" -> certificationSchema(f)
      [] p = "projects" -> projectSchema(f)
      [] p = UserPage -> userDetailsSchema(f)

\* A form that passes the page's schema.
ValidForm(p) ==
    CASE p = "skills" -> [name |-> "x", icon |-> "icon.png"]
      [] p = "education" -> [year |-> "x", institutionName |-> "x", description |-> "y"]
      [] p = "experience" ->
            [startYear |-> MinYear, endYear |-> SomeYear(MaxYearAllowed),
             companyName |-> "x", location |-> "x", description |-> "y",
             skillIds |-> <<"s1">>]
      [] p = "certifications" ->
            [name |-> "x", issuingOrganization |-> "x", year |-> MaxYearAllowed,
             certificateLink |-> <<"h", ":", "b">>, description |-> "y",
             skillIds |-> <<"s1">>]
      [] p = "projects" ->
            [title |-> <<"a">>, slug |-> <<"a", "-", "1">>, description |-> "x",
             content |-> "x", coverImage |-> NoFile, publishedAt |-> <<>>,
             published |-> FALSE, skillIds |-> <<"s1">>]
      [] p = UserPage ->
            [name |-> "x", role |-> "x", description |-> "x", profilePhoto |-> NoFile]

\* What the user may have typed when the form is submitted: the valid form, a
\* valid variant of it, and a form with a required text left empty.
FormSamples(p) ==
    {ValidForm(p)} \cup
    CASE p = "skills" ->
            {[ValidForm(p) EXCEPT !.name = ""], [ValidForm(p) EXCEPT !.icon = NoFile]}
      [] p = "education" ->
            {[ValidForm(p) EXCEPT !.year = ""],
             [ValidForm(p) EXCEPT !.institutionName = ""]}
      [] p = "experience" ->
            {[ValidForm(p) EXCEPT !.companyName = ""],
             [ValidForm(p) EXCEPT !.endYear = NoYear]}
      [] p = "certifications" ->
            {[ValidForm(p) EXCEPT !.issuingOrganization = ""],
             [ValidForm(p) EXCEPT !.certificateLink = <<>>]}
      [] p = "projects" ->
            {[ValidForm(p) EXCEPT !.title = <<>>],
             [ValidForm(p) EXCEPT !.coverImage = "cover.png"]}
      [] p = UserPage ->
            {[ValidForm(p) EXCEPT !.name = ""],
             [ValidForm(p) EXCEPT !.profilePhoto = "photo.png"]}

\* The same with one form per way of violating the schema.
FormCases(p) ==
    FormSamples(p) \cup
    CASE p = "skills" -> {}
      [] p = "education" -> {}
      [] p = "experience" ->
            {[ValidForm(p) EXCEPT !.location = ""],
             [ValidForm(p) EXCEPT !.startYear = MinYear - 1],
             [ValidForm(p) EXCEPT !.startYear = MaxYearAllowed + 1],
             [ValidForm(p) EXCEPT !.endYear = SomeYear(MinYear - 1)],
             [ValidForm(p) EXCEPT !.endYear = SomeYear(MaxYearAllowed + 1)],
             [ValidForm(p) EXCEPT !.startYear = MaxYearAllowed,
                                  !.endYear = SomeYear(MinYear)]}
      [] p = "certifications" ->
            {[ValidForm(p) EXCEPT !.name = ""],
             [ValidForm(p) EXCEPT !.year = MinYear - 1],
             [ValidForm(p) EXCEPT !.year = MaxYearAllowed + 1],
             [ValidForm(p) EXCEPT !.certificateLink = <<"h", "b">>]}
      [] p = "projects" ->
            {[ValidForm(p) EXCEPT !.slug = <<"A", " ", "b">>],
             [ValidForm(p) EXCEPT !.slug = <<>>],
             [ValidForm(p) EXCEPT !.description = ""]}
      [] p = UserPage ->
            {[ValidForm(p) EXCEPT !.role = ""],
             [ValidForm(p) EXCEPT !.description = ""]}

----------------------------------------------------------------------------
(* Payloads *)

Absent == "absent"                 \* a multipart field that is not appended
Undefined == <<"undefined">>

\* compressImage(file): the compressed file, or the file itself when the
\* compression throws.
compressImage(file, compressed) ==
    IF compressed THEN "compressed-" \o file ELSE file

Min(a, b) == IF a < b THEN a ELSE b

\* A payload whose current job ends in the year it started.
ExperiencePayloadEndingAtStart(data, cur) ==
    [data EXCEPT !.endYear = IF cur THEN SomeYear(data.startYear) ELSE data.endYear]

\* const payload = {...data, endYear: isCurrentJob ? null : data.endYear}
ExperiencePayload(data, cur) ==
    [data EXCEPT !.endYear = IF cur THEN NoYear ELSE data.endYear]

\* const payload = {...data, certificateLink: data.certificateLink || undefined}
CertificationPayload(data) ==
    [data EXCEPT !.certificateLink =
        IF data.certificateLink = <<>> THEN Undefined ELSE data.certificateLink]

\* formData of Skills.onSubmit
SkillPayload(data, compressed) ==
    [name |-> data.name,
     icon |-> IF data.icon # NoFile THEN compressImage(data.icon, compressed)
              ELSE Absent]

\* previewImages.slice(0, editingProject.contentImages.length)
ExistingImagesToKeep(ed, imgs) ==
    SubSeq(imgs, 1, Min(Len(ProjectOf(ed).contentImages), Len(imgs)))

\* formData of Projects.onSubmit
ProjectPayload(data, ed, imgs, files, compressed) ==
    [title |-> data.title, slug |-> data.slug, description |-> data.description,
     content |-> data.content,
     coverImage |-> IF data.coverImage # NoFile
                    THEN compressImage(data.coverImage, compressed) ELSE Absent,
     published |-> data.published,
     publishedAt |-> IF data.published THEN "now" ELSE Absent,
     skillIds |-> data.skillIds,
     hasExistingContentImages |-> ed # NoId,
     existingContentImages |-> IF ed # NoId THEN ExistingImagesToKeep(ed, imgs)
                               ELSE <<>>,
     contentImages |-> [i \in 1 .. Len(files) |-> compressImage(files[i], compressed)]]

\* A formData that re-submits the stored photo when no file is selected.
UserDetailsPayloadResending(data, links, compressed) ==
    [name |-> data.name, role |-> data.role,
     description |-> IF data.description # "" THEN data.description ELSE Absent,
     socialMedias |-> links,
     profilePhoto |-> IF data.profilePhoto # NoFile
                      THEN compressImage(data.profilePhoto, compressed)
                      ELSE UserOf(UserId).profilePhoto]

\* formData of UserDetailsPage.onSubmit
UserDetailsPayload(data, links, compressed) ==
    [name |-> data.name, role |-> data.role,
     description |-> IF data.description # "" THEN data.description ELSE Absent,
     socialMedias |-> links,
     profilePhoto |-> IF data.profilePhoto # NoFile
                      THEN compressImage(data.profilePhoto, compressed) ELSE Absent]

\* The request body onSubmit builds from the validated form data.
BuildPayload(p, data, ed, cur, imgs, files, links, compressed) ==
    CASE p = "skills" -> SkillPayload(data, compressed)
      [] p = "education" -> data
      [] p = "experience" -> ExperiencePayload(data, cur)
      [] p = "certifications" -> CertificationPayload(data)
      [] p = "projects" -> ProjectPayload(data, ed, imgs, files, compressed)
      [] p = UserPage -> UserDetailsPayload(data, links, compressed)

\* Whether onSubmit awaits compressImage at all for this form.
HasFile(p, data, files) ==
    \/ p = "skills" /\ data.icon # NoFile
    \/ p = "projects" /\ (data.coverImage # NoFile \/ files # <<>>)
    \/ p = UserPage /\ data.profilePhoto # NoFile

----------------------------------------------------------------------------
(* Messages *)

EntityName(p) ==
    CASE p = "skills" -> "skill" [] p = "experience" -> "experience"
      [] p = "education" -> "education" [] p = "certifications" -> "certification"
      [] p = "projects" -> "project" [] p = UserPage -> "user details"
EntityTitle(p) ==
    CASE p = "skills" -> "Skill" [] p = "experience" -> "Experience"
      [] p = "education" -> "Education" [] p = "certifications" -> "Certification"
      [] p = "projects" -> "Project" [] p = UserPage -> "User details"

LoadFailedMessage(p) ==
    CASE p = "skills" -> "Failed to load skills"
      [] p = "education" -> "Failed to load education"
      [] p = UserPage -> "Failed to load user details"
      [] OTHER -> "Failed to load data"

\* What a failed call looks like: success=false with an error string,
\* success=false without one, or no response at all (axios throws).
Failures == {"server-message", "no-message", "transport"}
ServerErrorText == "server says no"
TransportErrorText == "Network Error"

\* throw new Error(response.data.error || 'Failed to <op> <entity>')
ServiceError(p, op, failure) ==
    CASE failure = "server-message" -> ServerErrorText
      [] failure = "no-message" -> "Failed to " \o op \o " " \o EntityName(p)
      [] failure = "transport" -> TransportErrorText

PastTense(op) ==
    CASE op = "create" -> "created" [] op = "update" -> "updated"
      [] op = "delete" -> "deleted"
SuccessMessage(p, op) == EntityTitle(p) \o " " \o PastTense(op) \o " successfully"
DeleteFailedMessage(p) == "Failed to delete " \o EntityName(p)
IconRequiredMessage == "Icon is required for new skills"

----------------------------------------------------------------------------
(* State after the component's first render and its mount effect: the      *)
(* useState defaults, and loadData() suspended on its list requests.       *)

Ev(op, t, id) == [op |-> op, task |-> t, id |-> id]

\* loadData(): experienceService.getAll() and, on the pages with skills,
\* skillsService.getAll() are sent together (Promise.all).  loadUserDetails()
\* sends userDetailsService.get().
loadData(p, task) ==
    [task EXCEPT !.pc = "loading", !.e = Sent,
                 !.s = IF TwoLists(p) THEN "sent" ELSE "none"]

InitPage(p, held) ==
    /\ page = p
    /\ server = held
    /\ items = {}
    /\ skills = {}
    /\ isLoading = TRUE
    /\ isModalOpen = FALSE
    /\ editing = NoId
    /\ isSubmitting = FALSE
    /\ confirmDialog = [open |-> FALSE, id |-> NoId]
    /\ form = DefaultForm(p)
    /\ errors = {}
    /\ isCurrentJob = FALSE
    /\ preview = NoImage
    /\ socialMedias = <<>>
    /\ previewImages = <<>>
    /\ previewFiles = <<>>
    /\ reads = <<>>
    /\ tasks = [t \in TaskIds |->
                  IF t = MountTask
                  THEN loadData(p, [IdleTask EXCEPT !.op = "mount"])
                  ELSE IdleTask]
    /\ quota = MaxOps
    /\ notice = NoNotice
    /\ event = Ev("mount", MountTask, NoId)
    /\ SignedIn("ann")
    /\ call = NoCall
    /\ searchQuery = <<>>

Init == \E p \in Pages : InitPage(p, SeedIds)

modalVars == <<isModalOpen, editing, form, errors, isCurrentJob, preview,
               previewImages, previewFiles>>
listVars == <<items, skills, isLoading>>

----------------------------------------------------------------------------
(* The resource clients: what a method makes of the response envelope *)

Methods == {"getAll", "getById", "get", "create", "update", "delete"}

\* The methods of the client of a page's resource.
MethodsOf(service) ==
    IF service = UserPage THEN {"get", "create", "update"}
    ELSE {"getAll", "getById", "create", "update", "delete"}

\* The message a method throws with when the envelope carries no error.
DefaultMessage(service, method) ==
    CASE method = "getAll" -> "Failed to fetch " \o service
      [] method = "getById" -> "Failed to fetch " \o EntityName(service)
      [] OTHER -> "Failed to " \o method \o " " \o EntityName(service)

Returned(c, value) == [c EXCEPT !.st = "returned", !.value = value]
Threw(c, message) == [c EXCEPT !.st = "threw", !.error = message]

\* if (response.data.success && response.data.data) return response.data.data;
\* throw new Error(response.data.error || '<default>');
ReturnDataOrThrow(c, response) ==
    IF response.success /\ response.data THEN Returned(c, "data")
    ELSE Threw(c, IF response.error # "" THEN response.error
                  ELSE DefaultMessage(c.service, c.method))

\* delete: if (!response.data.success) throw new Error(...);
ThrowUnlessSuccess(c, response) ==
    IF ~response.success
    THEN Threw(c, IF response.error # "" THEN response.error
                  ELSE DefaultMessage(c.service, c.method))
    ELSE Returned(c, "void")

\* userDetailsService.get: the data, or null.
ReturnDataOrNull(c, response) ==
    IF response.success /\ response.data THEN Returned(c, "data")
    ELSE Returned(c, "null")

\* The continuation of a client method after `await api.<verb>(...)`.
ClientMethod(c, response) ==
    CASE c.method = "delete" -> ThrowUnlessSuccess(c, response)
      [] c.method = "get" -> ReturnDataOrNull(c, response)
      [] OTHER -> ReturnDataOrThrow(c, response)

\* A method of the page's client is called: its request is sent.
Request(method) ==
    /\ call.st # "sent"
    /\ method \in MethodsOf(page)
    /\ call' = [NoCall EXCEPT !.service = page, !.method = method, !.st = "sent"]
    /\ UNCHANGED <<localStorage, store, loginPage, page, searchQuery, socialMedias,
                   server, listVars, modalVars, isSubmitting, confirmDialog, reads,
                   tasks, quota, notice, event>>

\* The response arrives and the method finishes.
Respond(response) ==
    /\ call.st = "sent"
    /\ call' = ClientMethod([call EXCEPT !.via = "response", !.response = response],
                            response)
    /\ UNCHANGED <<localStorage, store, loginPage, page, searchQuery, socialMedias,
                   server, listVars, modalVars, isSubmitting, confirmDialog, reads,
                   tasks, quota, notice, event>>

\* No response arrives: the error of the transport passes through the method.
TransportFails ==
    /\ call.st = "sent"
    /\ call' = Threw([call EXCEPT !.via = "transport"], TransportErrorText)
    /\ UNCHANGED <<localStorage, store, loginPage, page, searchQuery, socialMedias,
                   server, listVars, modalVars, isSubmitting, confirmDialog, reads,
                   tasks, quota, notice, event>>

----------------------------------------------------------------------------
(* Login, logout and restore *)

LoginPage == "login"
DashboardPage == "dashboard"       \* the index route, inside DashboardLayout

\* The accounts the server knows, and what the user types.
Password == <<"s", "e", "c", "r", "e", "t">>
AccountOf(identifier) ==
    CASE identifier = <<"a", "n", "n">> -> "ann"
      [] identifier = <<"b", "o", "b">> -> "bob"
      [] OTHER -> NoUser
LoginForm == [identifier |-> <<>>, password |-> <<>>]
LoginInputs ==
    [identifier : {<<"a", "n", "n">>, <<"b", "o", "b">>, <<"e", "v", "e">>, <<"a", "n">>},
     password : {Password, <<"s", "e", "c", "r", "e", "x">>, <<"s", "e", "c">>}]

\* loginSchema: identifier min(3), password min(6)
loginSchema(f) ==
    (IF Len(f.identifier) < 3 THEN {"identifier"} ELSE {})
    \cup (IF Len(f.password) < 6 THEN {"password"} ELSE {})

\* How a login call fails: an error response whose body carries `error`,
\* only `message`, or neither; a success=false envelope with or without an
\* error; no response at all.
LoginFailures == {"error", "message", "empty", "envelope", "envelope-empty",
                  "transport"}
ServerMessageText == "invalid credentials"
LoginFailedText == "Login failed"

\* The message of the error authService.login throws.
LoginError(kind) ==
    CASE kind = "error" -> ServerErrorText
      [] kind = "message" -> ServerMessageText
      [] kind = "empty" -> LoginFailedText
      [] kind = "envelope" -> ServerErrorText
      [] kind = "envelope-empty" -> LoginFailedText
      [] kind = "transport" -> TransportErrorText

\* A setUser that leaves the session unauthenticated.
setUserSignedOut(user) == [user |-> user, isAuthenticated |-> FALSE]

\* useAuthStore.setUser: set({user, isAuthenticated: !!user})
setUser(user) == [user |-> user, isAuthenticated |-> user # NoUser]

\* The inputs of the login form, which nothing disables.
typeCredentials(v) ==
    /\ page = LoginPage
    /\ v # form
    /\ form' = v
    /\ notice' = NoNotice
    /\ event' = Ev("fill", MountTask, NoId)
    /\ UNCHANGED <<localStorage, store, loginPage, call, page, searchQuery, socialMedias, server,
                   listVars, isModalOpen, editing, errors, isCurrentJob, preview,
                   previewImages, previewFiles, isSubmitting, confirmDialog, reads,
                   tasks, quota>>

\* handleSubmit(onSubmit) of the login form; the button is disabled while
\* isLoading.  onSubmit up to its await: setIsLoading(true), the request of
\* authService.login is sent.
LoginSubmit ==
    /\ page = LoginPage
    /\ ~loginPage.isLoading
    /\ IF loginSchema(form) # {}
       THEN /\ errors' = loginSchema(form)
            /\ event' = Ev("submitInvalid", MountTask, NoId)
            /\ UNCHANGED loginPage
       ELSE /\ errors' = {}
            /\ loginPage' = [isLoading |-> TRUE, req |-> "sent",
                             identifier |-> form.identifier,
                             password |-> form.password]
            /\ event' = Ev("login", MountTask, NoId)
    /\ notice' = NoNotice
    /\ UNCHANGED <<localStorage, store, call, page, searchQuery, socialMedias, server, listVars,
                   isModalOpen, editing, form, isCurrentJob, preview, previewImages,
                   previewFiles, isSubmitting, confirmDialog, reads, tasks, quota>>

\* The server accepts the credentials.  authService.login persists the token
\* and the user; Login.onSubmit then calls setUser(user), shows the toast,
\* navigates to '/' and, in finally, resets isLoading.
LoginSucceeded ==
    LET user == AccountOf(loginPage.identifier)
    IN  /\ page = LoginPage
        /\ loginPage.req = "sent"
        /\ user # NoUser /\ loginPage.password = Password
        /\ localStorage' = PersistSession(user, TokenOf(user))
        /\ store' = setUser(user)
        /\ notice' = Success("Login successful!")
        /\ page' = DashboardPage
        /\ loginPage' = IdleLogin
        /\ form' = LoginForm
        /\ errors' = {}
        /\ event' = Ev("loginSucceeded", MountTask, user)
        /\ UNCHANGED <<call, searchQuery, socialMedias, server, listVars, isModalOpen, editing,
                       isCurrentJob, preview, previewImages, previewFiles,
                       isSubmitting, confirmDialog, reads, tasks, quota>>

\* authService.login throws; Login.onSubmit: toast.error(error.message),
\* finally setIsLoading(false).
LoginFailed(kind) ==
    /\ page = LoginPage
    /\ loginPage.req = "sent"
    /\ kind \in LoginFailures
    /\ notice' = Failure(LoginError(kind))
    /\ loginPage' = [loginPage EXCEPT !.isLoading = FALSE, !.req = "none"]
    /\ event' = Ev("loginFailed", MountTask, kind)
    /\ UNCHANGED <<localStorage, store, call, page, searchQuery, socialMedias, server, listVars,
                   modalVars, isSubmitting, confirmDialog, reads, tasks, quota>>

\* A logout that removes the token only.
logoutKeepingUser ==
    /\ page = DashboardPage
    /\ localStorage' = [localStorage EXCEPT !.auth_token = NoToken]
    /\ page' = LoginPage
    /\ store' = [user |-> NoUser, isAuthenticated |-> FALSE]
    /\ loginPage' = IdleLogin
    /\ form' = LoginForm
    /\ errors' = {}
    /\ notice' = NoNotice
    /\ event' = Ev("logout", MountTask, store.user)
    /\ UNCHANGED <<call, searchQuery, socialMedias, server, listVars, isModalOpen, editing,
                   isCurrentJob, preview, previewImages, previewFiles, isSubmitting,
                   confirmDialog, reads, tasks, quota>>

\* The Logout button of the Sidebar: useAuthStore.logout, that is
\* authService.logout() (both items removed, window.location.href = '/login')
\* and set({user: null, isAuthenticated: false}).
logout ==
    /\ page = DashboardPage
    /\ localStorage' = EmptyStorage
    /\ page' = LoginPage
    /\ store' = [user |-> NoUser, isAuthenticated |-> FALSE]
    /\ loginPage' = IdleLogin
    /\ form' = LoginForm
    /\ errors' = {}
    /\ notice' = NoNotice
    /\ event' = Ev("logout", MountTask, store.user)
    /\ UNCHANGED <<call, searchQuery, socialMedias, server, listVars, isModalOpen, editing,
                   isCurrentJob, preview, previewImages, previewFiles, isSubmitting,
                   confirmDialog, reads, tasks, quota>>

\* useAuthStore.checkAuth
checkAuth ==
    /\ page \in {LoginPage, DashboardPage}
    /\ store' = StoredSession(localStorage)
    /\ notice' = NoNotice
    /\ event' = Ev("checkAuth", MountTask, NoId)
    /\ UNCHANGED <<localStorage, loginPage, call, page, searchQuery, socialMedias, server,
                   listVars, modalVars, isSubmitting, confirmDialog, reads, tasks,
                   quota>>

\* The app is loaded (opened or reloaded) at a route: the store is created
\* from what localStorage holds, the Login component is fresh, and a login
\* request that was out is never heard of.
ProcessStart(route) ==
    /\ page \in {LoginPage, DashboardPage}
    /\ route \in {LoginPage, DashboardPage}
    /\ page' = route
    /\ store' = StoredSession(localStorage)
    /\ loginPage' = IdleLogin
    /\ form' = LoginForm
    /\ errors' = {}
    /\ notice' = NoNotice
    /\ event' = Ev("start", MountTask, NoId)
    /\ UNCHANGED <<localStorage, call, searchQuery, socialMedias, server, listVars, isModalOpen,
                   editing, isCurrentJob, preview, previewImages, previewFiles,
                   isSubmitting, confirmDialog, reads, tasks, quota>>

----------------------------------------------------------------------------
(* The modal *)

\* handleCloseModal(): also the tail of a successful onSubmit.
CloseModal ==
    /\ isModalOpen' = FALSE
    /\ editing' = NoId
    /\ form' = DefaultForm(page)
    /\ errors' = {}
    /\ isCurrentJob' = FALSE
    /\ preview' = NoImage
    /\ previewImages' = <<>>
    /\ previewFiles' = <<>>

\* What can be operated: the page renders once isLoading is false, and an
\* open Modal (a modal Radix dialog) leaves nothing outside it operable.
\* The ConfirmDialog is a plain overlay of the page: the page's buttons
\* stay enabled under it.
PageOperable == page \in Pages /\ ~isLoading /\ ~isModalOpen
\* A modal whose controls stay enabled while isSubmitting.
ModalOperableWhileSubmitting == isModalOpen
\* The modal's Cancel, close and submit controls: disabled={isSubmitting}.
ModalOperable == isModalOpen /\ ~isSubmitting
\* The user-details form is part of the page; its inputs and its Save button
\* are disabled while isSubmitting.
FormOperable ==
    IF page = UserPage THEN ~isLoading /\ ~isSubmitting ELSE ModalOperable

\* handleOpenModal(entity?) from the Add button or an item's edit button.
handleOpenModal(id) ==
    /\ PageOperable
    /\ id \in items \cup {NoId}
    /\ isModalOpen' = TRUE
    /\ editing' = id
    /\ IF id # NoId
       THEN /\ form' = EntityForm(page, id, form)
            /\ errors' = errors
            /\ isCurrentJob' = IF page = "experience"
                               THEN ExperienceOf(id).endYear = NoYear
                               ELSE isCurrentJob
            /\ preview' = CASE page = "skills" -> SkillOf(id).icon
                            [] page = "projects" -> ProjectOf(id).coverImage
                            [] OTHER -> preview
            /\ previewImages' = IF page = "projects" THEN ProjectOf(id).contentImages
                                ELSE previewImages
            /\ previewFiles' = IF page = "projects" THEN <<>> ELSE previewFiles
       ELSE /\ form' = DefaultForm(page)
            /\ errors' = {}
            /\ isCurrentJob' = FALSE
            /\ preview' = NoImage
            /\ previewImages' = <<>>
            /\ previewFiles' = <<>>
    /\ notice' = NoNotice
    /\ event' = Ev("openModal", MountTask, id)
    /\ UNCHANGED <<sessionVars, page, socialMedias, server, listVars, isSubmitting, confirmDialog, reads, tasks,
                   quota>>

\* Cancel, the close button, Escape, a click outside: all disabled while
\* isSubmitting.
handleCloseModal ==
    /\ ModalOperable
    /\ CloseModal
    /\ notice' = NoNotice
    /\ event' = Ev("closeModal", MountTask, NoId)
    /\ UNCHANGED <<sessionVars, page, socialMedias, server, listVars, isSubmitting, confirmDialog, reads, tasks,
                   quota>>

\* The file the form's single image input holds (icon, coverImage,
\* profilePhoto).
FileOf(p, f) ==
    CASE p = "skills" -> f.icon [] p = "projects" -> f.coverImage
      [] p = UserPage -> f.profilePhoto [] OTHER -> NoFile

\* FileReader.readAsDataURL(file): the preview of a selected file.
readAsDataURL(file) == "data-" \o file

\* The user fills the form in; the inputs are disabled while isSubmitting,
\* and the end-year input while isCurrentJob.
FillForm(v) ==
    /\ FormOperable
    /\ form' = IF page = "experience" /\ isCurrentJob
               THEN [v EXCEPT !.endYear = form.endYear] ELSE v
    /\ form' # form
    /\ preview' = IF FileOf(page, form') \notin {NoFile, FileOf(page, form)}
                  THEN readAsDataURL(FileOf(page, form')) ELSE preview
    /\ notice' = NoNotice
    /\ event' = Ev("fill", MountTask, NoId)
    /\ UNCHANGED <<sessionVars, page, socialMedias, server, listVars, isModalOpen, editing, errors, isCurrentJob,
                   previewImages, previewFiles, isSubmitting, confirmDialog,
                   reads, tasks, quota>>

----------------------------------------------------------------------------
(* Submit *)

\* An onSubmit that sends the skill form whether it has an icon or not.
onSubmitSendingWithoutIcon(compressed) ==
    /\ quota > 0
    /\ isSubmitting' = TRUE
    /\ tasks' = [tasks EXCEPT ![SubmitTask] =
                   [IdleTask EXCEPT
                      !.pc = "mutating",
                      !.op = IF editing # NoId THEN "update" ELSE "create",
                      !.target = editing,
                      !.payload = BuildPayload(page, form, editing, isCurrentJob,
                                               previewImages, previewFiles,
                                               socialMedias, compressed),
                      !.mut = "sent"]]
    /\ quota' = quota - 1
    /\ notice' = NoNotice
    /\ event' = Ev("submit", SubmitTask, editing)

\* handleSubmit(onSubmit): the resolver validates; onSubmit runs only for a
\* valid form.  onSubmit builds the payload (awaiting compressImage for the
\* files) and sends create or update; the skill form without an icon and
\* without an editingSkill returns before any call.
onSubmit(compressed) ==
    LET op == IF editing # NoId THEN "update" ELSE "create"
        payload == BuildPayload(page, form, editing, isCurrentJob, previewImages,
                                previewFiles, socialMedias, compressed)
    IN  IF page = "skills" /\ form.icon = NoFile /\ editing = NoId
        THEN /\ notice' = Failure(IconRequiredMessage)
             /\ event' = Ev("submitBlocked", SubmitTask, editing)
             /\ UNCHANGED <<isSubmitting, tasks, quota>>
        ELSE /\ quota > 0
             /\ isSubmitting' = TRUE
             /\ tasks' = [tasks EXCEPT ![SubmitTask] =
                            [IdleTask EXCEPT !.pc = "mutating", !.op = op,
                                             !.target = editing, !.payload = payload,
                                             !.mut = "sent"]]
             /\ quota' = quota - 1
             /\ notice' = NoNotice
             /\ event' = Ev("submit", SubmitTask, editing)

SubmitForm(compressed) ==
    /\ FormOperable
    /\ compressed \/ HasFile(page, form, previewFiles)
    /\ IF Validate(page, form) # {}
       THEN /\ errors' = Validate(page, form)
            /\ notice' = NoNotice
            /\ event' = Ev("submitInvalid", SubmitTask, editing)
            /\ UNCHANGED <<isSubmitting, tasks, quota>>
       ELSE /\ errors' = {}
            /\ onSubmit(compressed)
    /\ UNCHANGED <<sessionVars, page, socialMedias, server, listVars, isModalOpen, editing, form, isCurrentJob,
                   preview, previewImages, previewFiles, confirmDialog, reads>>

----------------------------------------------------------------------------
(* Delete *)

\* handleDelete(id) from an item's delete button.
handleDelete(id) ==
    /\ PageOperable
    /\ id \in items
    /\ confirmDialog' = [open |-> TRUE, id |-> id]
    /\ notice' = NoNotice
    /\ event' = Ev("requestDelete", MountTask, id)
    /\ UNCHANGED <<sessionVars, page, socialMedias, server, listVars, modalVars, isSubmitting, reads, tasks,
                   quota>>

onClose == confirmDialog' = [open |-> FALSE, id |-> NoId]

FreeDeleteTasks == {t \in DeleteTasks : tasks[t].pc = "idle"}

\* A confirmDelete that fires the refetch together with the delete.
confirmDeleteWithRefetch(t) ==
    /\ confirmDialog.id # NoId
    /\ tasks' = [tasks EXCEPT ![t] =
                   [IdleTask EXCEPT !.pc = "mutating", !.op = "delete",
                                    !.target = confirmDialog.id, !.mut = "sent",
                                    !.e = Sent]]

\* confirmDelete() up to its first await: the delete request is sent.
confirmDelete(t) ==
    /\ confirmDialog.id # NoId
    /\ tasks' = [tasks EXCEPT ![t] =
                   [IdleTask EXCEPT !.pc = "mutating", !.op = "delete",
                                    !.target = confirmDialog.id, !.mut = "sent"]]

\* A handleConfirm that leaves the closing to the outcome of the delete.
handleConfirmStayingOpen ==
    /\ confirmDialog.open
    /\ ~isModalOpen
    /\ quota > 0
    /\ FreeDeleteTasks # {}
    /\ LET t == CHOOSE x \in FreeDeleteTasks : \A y \in FreeDeleteTasks : x <= y
       IN  /\ confirmDelete(t)
           /\ event' = Ev("confirmDelete", t, confirmDialog.id)
    /\ UNCHANGED confirmDialog
    /\ quota' = quota - 1
    /\ notice' = NoNotice
    /\ UNCHANGED <<sessionVars, page, socialMedias, server, listVars, modalVars, isSubmitting, reads>>

\* ConfirmDialog.handleConfirm: onConfirm(); onClose();
handleConfirm ==
    /\ confirmDialog.open
    /\ ~isModalOpen
    /\ quota > 0
    /\ FreeDeleteTasks # {}
    /\ LET t == CHOOSE x \in FreeDeleteTasks : \A y \in FreeDeleteTasks : x <= y
       IN  /\ confirmDelete(t)
           /\ event' = Ev("confirmDelete", t, confirmDialog.id)
    /\ onClose
    /\ quota' = quota - 1
    /\ notice' = NoNotice
    /\ UNCHANGED <<sessionVars, page, socialMedias, server, listVars, modalVars, isSubmitting, reads>>

\* A dismiss that hides the dialog and keeps its target.
dismissKeepingTarget ==
    /\ confirmDialog.open
    /\ ~isModalOpen
    /\ confirmDialog' = [confirmDialog EXCEPT !.open = FALSE]
    /\ notice' = NoNotice
    /\ event' = Ev("dismiss", MountTask, confirmDialog.id)
    /\ UNCHANGED <<sessionVars, page, socialMedias, server, listVars, modalVars,
                   isSubmitting, reads, tasks, quota>>

\* Cancel, the X button or a click on the backdrop of the ConfirmDialog.
dismiss ==
    /\ confirmDialog.open
    /\ ~isModalOpen
    /\ onClose
    /\ notice' = NoNotice
    /\ event' = Ev("dismiss", MountTask, confirmDialog.id)
    /\ UNCHANGED <<sessionVars, page, socialMedias, server, listVars, modalVars, isSubmitting, reads, tasks,
                   quota>>

----------------------------------------------------------------------------
(* Experience: the "Currently working here" checkbox *)

\* onChange of the checkbox, which is not disabled while isSubmitting:
\* setIsCurrentJob(checked); if (checked) setValue('endYear', null).
toggleCurrentJob(checked) ==
    /\ page = "experience"
    /\ isModalOpen
    /\ checked # isCurrentJob
    /\ isCurrentJob' = checked
    /\ form' = IF checked THEN [form EXCEPT !.endYear = NoYear] ELSE form
    /\ notice' = NoNotice
    /\ event' = Ev("toggle", MountTask, editing)
    /\ UNCHANGED <<sessionVars, page, socialMedias, server, listVars, isModalOpen, editing, errors,
                   preview, previewImages, previewFiles, isSubmitting, confirmDialog,
                   reads, tasks, quota>>

----------------------------------------------------------------------------
(* Projects: the content images *)

\* The file selections of the content-images input.
FileBatches == {<<"f1">>, <<"f2">>, <<"f1", "f2">>}

\* prev.filter((_, i) => i !== index), with index counted from 0
FilterOut(seq, index) ==
    [k \in 1 .. (Len(seq) - (IF index >= 0 /\ index < Len(seq) THEN 1 ELSE 0)) |->
        IF k <= index THEN seq[k] ELSE seq[k + 1]]

\* handlePreviewImagesChange up to its first await: the files are queued for
\* upload at once, their previews are read in the background.
handlePreviewImagesChange(files) ==
    /\ page = "projects"
    /\ ModalOperable
    /\ files \in FileBatches
    /\ Len(previewFiles) + Len(files) <= MaxFiles
    /\ Len(reads) < MaxReads
    /\ previewFiles' = previewFiles \o files
    /\ reads' = Append(reads, files)
    /\ notice' = NoNotice
    /\ event' = Ev("selectImages", MountTask, editing)
    /\ UNCHANGED <<sessionVars, page, socialMedias, server, listVars, isModalOpen, editing, form,
                   errors, isCurrentJob, preview, previewImages, isSubmitting,
                   confirmDialog, tasks, quota>>

\* The last FileReader of a selection has finished:
\* setPreviewImages(prev => [...prev, ...newPreviews]), whatever the modal
\* shows by then.
ReadComplete(i) ==
    /\ i \in 1 .. Len(reads)
    /\ previewImages' =
          previewImages \o [k \in 1 .. Len(reads[i]) |-> readAsDataURL(reads[i][k])]
    /\ reads' = FilterOut(reads, i - 1)
    /\ notice' = NoNotice
    /\ event' = Ev("readComplete", MountTask, editing)
    /\ UNCHANGED <<sessionVars, page, socialMedias, server, listVars, isModalOpen, editing, form,
                   errors, isCurrentJob, preview, previewFiles, isSubmitting,
                   confirmDialog, tasks, quota>>

\* handleRemovePreviewImage(index), index counted from 0: the button on the
\* index-th preview shown.
handleRemovePreviewImage(index) ==
    LET existingImageCount ==
            IF editing # NoId THEN Len(ProjectOf(editing).contentImages) ELSE 0
        newFileIndex == index - existingImageCount
    IN  /\ page = "projects"
        /\ ModalOperable
        /\ index \in 0 .. (Len(previewImages) - 1)
        /\ previewImages' = FilterOut(previewImages, index)
        /\ previewFiles' = IF index < existingImageCount THEN previewFiles
                           ELSE FilterOut(previewFiles, newFileIndex)
        /\ notice' = NoNotice
        /\ event' = Ev("removeImage", MountTask, editing)
        /\ UNCHANGED <<sessionVars, page, socialMedias, server, listVars, isModalOpen, editing, form,
                       errors, isCurrentJob, preview, isSubmitting, confirmDialog,
                       reads, tasks, quota>>

----------------------------------------------------------------------------
(* Projects: the title, and the slug derived from it *)

\* What a keystroke makes of the text of an input: a character appended, or
\* the last one deleted.
Keystrokes(str) ==
    {Append(str, c) : c \in TitleAlphabet}
    \cup (IF str # <<>> THEN {SubSeq(str, 1, Len(str) - 1)} ELSE {})

\* A title effect that derives the slug in edit mode too.
typeTitleDeriving(title) ==
    /\ page = "projects"
    /\ ModalOperable
    /\ title \in Keystrokes(form.title)
    /\ Len(title) <= MaxTitle
    /\ form' = [form EXCEPT !.title = title,
                            !.slug = IF title # <<>> THEN DeriveSlug(title)
                                     ELSE form.slug]
    /\ notice' = NoNotice
    /\ event' = Ev("typeTitle", MountTask, editing)
    /\ UNCHANGED <<sessionVars, page, socialMedias, server, listVars, isModalOpen,
                   editing, errors, isCurrentJob, preview, previewImages,
                   previewFiles, isSubmitting, confirmDialog, reads, tasks, quota>>

\* A keystroke in the title input, and the effect on [titleValue,
\* editingProject] that follows the render:
\* if (titleValue && !editingProject) setValue('slug', <derived>).
typeTitle(title) ==
    /\ page = "projects"
    /\ ModalOperable
    /\ title \in Keystrokes(form.title)
    /\ Len(title) <= MaxTitle
    /\ form' = [form EXCEPT !.title = title,
                            !.slug = IF title # <<>> /\ editing = NoId
                                     THEN DeriveSlug(title) ELSE form.slug]
    /\ notice' = NoNotice
    /\ event' = Ev("typeTitle", MountTask, editing)
    /\ UNCHANGED <<sessionVars, page, socialMedias, server, listVars, isModalOpen,
                   editing, errors, isCurrentJob, preview, previewImages,
                   previewFiles, isSubmitting, confirmDialog, reads, tasks, quota>>

\* The slugs the user types into the slug input.
SlugInputs == {<<"a", "-", "1">>, <<"A", " ">>}

\* The slug input, which no effect watches.
typeSlug(slug) ==
    /\ page = "projects"
    /\ ModalOperable
    /\ slug # form.slug
    /\ form' = [form EXCEPT !.slug = slug]
    /\ notice' = NoNotice
    /\ event' = Ev("typeSlug", MountTask, editing)
    /\ UNCHANGED <<sessionVars, page, socialMedias, server, listVars, isModalOpen,
                   editing, errors, isCurrentJob, preview, previewImages,
                   previewFiles, isSubmitting, confirmDialog, reads, tasks, quota>>

----------------------------------------------------------------------------
(* User details: the social-media links *)

IsSpace(c) == c = " "
RECURSIVE trimStart(_)
trimStart(str) ==
    IF str # <<>> /\ IsSpace(Head(str)) THEN trimStart(Tail(str)) ELSE str
RECURSIVE trimEnd(_)
trimEnd(str) ==
    IF str # <<>> /\ IsSpace(str[Len(str)])
    THEN trimEnd(SubSeq(str, 1, Len(str) - 1)) ELSE str
trim(str) == trimEnd(trimStart(str))

\* What the user types into the two inputs of a new link.
IconInputs == {<<"g">>, <<" ">>}
UrlInputs == {<<" ", "u">>, <<"u", "|", "u">>}

\* handleAddSocialMedia with newSocialMediaIcon = icon, newSocialMediaUrl = url
handleAddSocialMedia(icon, url) ==
    /\ page = UserPage
    /\ ~isLoading /\ ~isSubmitting
    /\ Len(socialMedias) < MaxSocial
    /\ socialMedias' = IF trim(icon) # <<>> /\ trim(url) # <<>>
                       THEN Append(socialMedias, trim(icon) \o <<"|">> \o trim(url))
                       ELSE socialMedias
    /\ notice' = NoNotice
    /\ event' = Ev("addSocialMedia", MountTask, editing)
    /\ UNCHANGED <<sessionVars, page, server, listVars, modalVars, isSubmitting, confirmDialog, reads,
                   tasks, quota>>

\* handleRemoveSocialMedia(index), index counted from 0
handleRemoveSocialMedia(index) ==
    /\ page = UserPage
    /\ ~isLoading /\ ~isSubmitting
    /\ index \in 0 .. (Len(socialMedias) - 1)
    /\ socialMedias' = FilterOut(socialMedias, index)
    /\ notice' = NoNotice
    /\ event' = Ev("removeSocialMedia", MountTask, editing)
    /\ UNCHANGED <<sessionVars, page, server, listVars, modalVars, isSubmitting, confirmDialog, reads,
                   tasks, quota>>

----------------------------------------------------------------------------
(* The search box of the entity pages *)

\* The order in which the server lists its collection.
ServerOrder == <<"a", "b">>
Listed(held) == SelectSeq(ServerOrder, LAMBDA id : id \in held)

\* The texts of the sample entities that the filter reads, letter by
\* letter: the name (companyName, institutionName, name or title), the
\* second text (location, issuingOrganization, or the project's
\* description), the nullable description, and the names of the skills.
NameText(id) ==
    CASE id = "a" -> <<"A", "b">>
      [] id = "b" -> <<"b", "a", "B">>
SecondText(id) ==
    CASE id = "a" -> <<"x">>
      [] id = "b" -> <<"A", "A">>
DescriptionText(id) ==
    CASE id = "a" -> NullLink
      [] id = "b" -> <<"x", "B">>
SkillName(skillId) ==
    CASE skillId = "s1" -> <<"a", "x">>
      [] skillId = "s2" -> <<"B", "b">>

QueryAlphabet == {"a", "A", "b", "x"}

\* String.prototype.toLowerCase
toLowerCaseAll(str) == [i \in 1 .. Len(str) |-> toLowerCase(str[i])]

\* String.prototype.includes
includes(str, searchString) ==
    \E k \in 0 .. (Len(str) - Len(searchString)) :
        SubSeq(str, k + 1, k + Len(searchString)) = searchString

\* A match that compares the query as it was typed.
TextMatchesAsTyped(text, query) == includes(toLowerCaseAll(text), query)

\* text.toLowerCase().includes(searchQuery.toLowerCase())
TextMatches(text, query) == includes(toLowerCaseAll(text), toLowerCaseAll(query))

\* (x.description && x.description.toLowerCase().includes(...))
DescriptionMatches(text, query) ==
    text # NullLink /\ text # <<>> /\ TextMatches(text, query)

\* The predicate of filteredSkills / filteredExperiences / filteredEducation
\* / filteredCertifications / filteredProjects.
ItemMatches(p, id, query) ==
    CASE p = "skills" -> TextMatches(NameText(id), query)
      [] p = "experience" ->
            \/ TextMatches(NameText(id), query)
            \/ TextMatches(SecondText(id), query)
            \/ DescriptionMatches(DescriptionText(id), query)
      [] p = "education" ->
            \/ TextMatches(NameText(id), query)
            \/ DescriptionMatches(DescriptionText(id), query)
      [] p = "certifications" ->
            \/ TextMatches(NameText(id), query)
            \/ TextMatches(SecondText(id), query)
            \/ DescriptionMatches(DescriptionText(id), query)
      [] p = "projects" ->
            \/ TextMatches(NameText(id), query)
            \/ TextMatches(SecondText(id), query)
            \/ \E i \in 1 .. Len(SkillsOf(id)) :
                  TextMatches(SkillName(SkillsOf(id)[i].skill.id), query)

\* experiences.filter(...): the list the page renders.
filtered(p, list, query) == SelectSeq(list, LAMBDA id : ItemMatches(p, id, query))

\* onChange of the search input, which is rendered once the page has left
\* Loading: setSearchQuery(e.target.value).
setSearchQuery(value) ==
    /\ page \in Pages
    /\ ~isLoading
    /\ Len(value) <= MaxQuery
    /\ value # searchQuery
    /\ searchQuery' = value
    /\ notice' = NoNotice
    /\ event' = Ev("search", MountTask, NoId)
    /\ UNCHANGED <<localStorage, store, loginPage, call, page, socialMedias, server,
                   listVars, modalVars, isSubmitting, confirmDialog, reads, tasks,
                   quota>>

----------------------------------------------------------------------------
(* The server and the responses *)

\* The ids the server can give a created entity.
FreeIds == (IF page = UserPage THEN {UserId} ELSE Ids) \ server
NewId == CHOOSE i \in FreeIds : TRUE

\* The server handles a create, update or delete request.
ServerMutate(t) ==
    /\ tasks[t].pc = "mutating"
    /\ tasks[t].mut = "sent"
    /\ CASE tasks[t].op = "create" -> FreeIds # {} /\ server' = server \cup {NewId}
         [] tasks[t].op = "update" -> tasks[t].target \in server /\ server' = server
         [] tasks[t].op = "delete" ->
                tasks[t].target \in server /\ server' = server \ {tasks[t].target}
    /\ tasks' = [tasks EXCEPT ![t].mut = "resp"]
    /\ UNCHANGED <<sessionVars, page, socialMedias, listVars, modalVars, isSubmitting, confirmDialog,
                   reads, quota, notice, event>>

\* The server answers GET /<entity> with what it holds at that moment.
ServerList(t) ==
    /\ tasks[t].pc = "loading"
    /\ tasks[t].e.st = "sent"
    /\ tasks' = [tasks EXCEPT ![t].e = Resp(server)]
    /\ UNCHANGED <<sessionVars, page, socialMedias, server, listVars, modalVars, isSubmitting,
                   confirmDialog, reads, quota, notice, event>>

\* A loadData whose catch empties the list.
EntitiesSettledClearing(t, ok, data) ==
    /\ isLoading' = FALSE
    /\ items' = IF ok THEN data ELSE {}
    /\ skills' = IF ok /\ TwoLists(page) THEN SkillIds ELSE skills
    /\ notice' = IF ok THEN NoNotice ELSE Failure(LoadFailedMessage(page))
    /\ event' = Ev(IF ok THEN "loaded" ELSE "loadFailed", t, tasks[t].target)
    /\ tasks' = [tasks EXCEPT ![t] = IdleTask]
    /\ IF t = SubmitTask
       THEN CloseModal /\ isSubmitting' = FALSE
       ELSE UNCHANGED <<modalVars, isSubmitting>>
    /\ UNCHANGED socialMedias

\* The end of loadData() on an entity page and what its caller does after
\* `await loadData()`: onSubmit calls handleCloseModal() and, in finally,
\* setIsSubmitting(false).
EntitiesSettled(t, ok, data) ==
    /\ isLoading' = FALSE
    /\ items' = IF ok THEN data ELSE items
    /\ skills' = IF ok /\ TwoLists(page) THEN SkillIds ELSE skills
    /\ notice' = IF ok THEN NoNotice ELSE Failure(LoadFailedMessage(page))
    /\ event' = Ev(IF ok THEN "loaded" ELSE "loadFailed", t, tasks[t].target)
    /\ tasks' = [tasks EXCEPT ![t] = IdleTask]
    /\ IF t = SubmitTask
       THEN CloseModal /\ isSubmitting' = FALSE
       ELSE UNCHANGED <<modalVars, isSubmitting>>
    /\ UNCHANGED socialMedias

\* The end of loadUserDetails(): `if (data) {...}` fills the page in from
\* the record; get() gives null when the server holds none.  Its caller
\* onSubmit then runs finally: setIsSubmitting(false).
UserDetailsSettled(t, ok, data) ==
    /\ isLoading' = FALSE
    /\ IF ok /\ data # {}
       THEN /\ editing' = UserId
            /\ form' = EntityForm(UserPage, UserId, form)
            /\ socialMedias' = UserOf(UserId).socialMedias
            /\ preview' = UserOf(UserId).profilePhoto
       ELSE UNCHANGED <<editing, form, socialMedias, preview>>
    /\ notice' = IF ok THEN NoNotice ELSE Failure(LoadFailedMessage(page))
    /\ event' = Ev(IF ok THEN "loaded" ELSE "loadFailed", t, tasks[t].target)
    /\ tasks' = [tasks EXCEPT ![t] = IdleTask]
    /\ isSubmitting' = IF t = SubmitTask THEN FALSE ELSE isSubmitting
    /\ UNCHANGED <<items, skills, isModalOpen, errors, isCurrentJob, previewImages,
                   previewFiles>>

LoadSettled(t, ok, data) ==
    IF page = UserPage THEN UserDetailsSettled(t, ok, data)
    ELSE EntitiesSettled(t, ok, data)

\* A loadData that goes on as soon as the entity list is in.
ReceiveListAlone(t) ==
    /\ tasks[t].pc = "loading"
    /\ tasks[t].e.st = "resp"
    /\ LoadSettled(t, TRUE, tasks[t].e.data)
    /\ UNCHANGED <<sessionVars, page, server, confirmDialog, reads, quota>>

\* The entity list arrives.  Promise.all resolves once both lists are in.
ReceiveList(t) ==
    /\ tasks[t].pc = "loading"
    /\ tasks[t].e.st = "resp"
    /\ IF tasks[t].s \in {"none", "got"}
       THEN LoadSettled(t, TRUE, tasks[t].e.data)
       ELSE /\ tasks' = [tasks EXCEPT ![t].e = Got(tasks[t].e.data)]
            /\ UNCHANGED <<socialMedias, listVars, modalVars, isSubmitting, notice, event>>
    /\ UNCHANGED <<sessionVars, page, server, confirmDialog, reads, quota>>

\* The skills list arrives.
ReceiveSkills(t) ==
    /\ tasks[t].pc = "loading"
    /\ tasks[t].s = "sent"
    /\ IF tasks[t].e.st = "got"
       THEN LoadSettled(t, TRUE, tasks[t].e.data)
       ELSE /\ tasks' = [tasks EXCEPT ![t].s = "got"]
            /\ UNCHANGED <<socialMedias, listVars, modalVars, isSubmitting, notice, event>>
    /\ UNCHANGED <<sessionVars, page, server, confirmDialog, reads, quota>>

\* A list request fails (no response, or success=false, which getAll turns
\* into a throw): Promise.all rejects at once, whatever the state of the
\* other request, whose outcome nothing awaits any more and no state records.
ListFailed(t) ==
    /\ tasks[t].pc = "loading"
    /\ tasks[t].e.st = "sent"
    /\ LoadSettled(t, FALSE, {})
    /\ UNCHANGED <<sessionVars, page, server, confirmDialog, reads, quota>>

\* A loadData that keeps the entity list it already has when the skills
\* request fails.
SkillsFailedKeepingEntities(t) ==
    /\ tasks[t].pc = "loading"
    /\ tasks[t].s = "sent"
    /\ isLoading' = FALSE
    /\ items' = IF tasks[t].e.st = "got" THEN tasks[t].e.data ELSE items
    /\ notice' = Failure(LoadFailedMessage(page))
    /\ event' = Ev("loadFailed", t, tasks[t].target)
    /\ tasks' = [tasks EXCEPT ![t] = IdleTask]
    /\ IF t = SubmitTask
       THEN CloseModal /\ isSubmitting' = FALSE
       ELSE UNCHANGED <<modalVars, isSubmitting>>
    /\ UNCHANGED <<sessionVars, page, socialMedias, server, skills, confirmDialog,
                   reads, quota>>

\* The skills request fails.
SkillsFailed(t) ==
    /\ tasks[t].pc = "loading"
    /\ tasks[t].s = "sent"
    /\ LoadSettled(t, FALSE, {})
    /\ UNCHANGED <<sessionVars, page, server, confirmDialog, reads, quota>>

\* GET /user answered with success=false: userDetailsService.get() returns
\* null instead of throwing.
GetRejected(t) ==
    /\ page = UserPage
    /\ tasks[t].pc = "loading"
    /\ tasks[t].e.st = "sent"
    /\ LoadSettled(t, TRUE, {})
    /\ UNCHANGED <<sessionVars, page, server, confirmDialog, reads, quota>>

\* A success handler that also drops a deleted item from the local list.
MutationSucceededOptimistic(t) ==
    /\ tasks[t].pc = "mutating"
    /\ tasks[t].mut = "resp"
    /\ notice' = Success(SuccessMessage(page, tasks[t].op))
    /\ event' = Ev("mutated", t, tasks[t].target)
    /\ tasks' = [tasks EXCEPT ![t] = loadData(page, [tasks[t] EXCEPT !.mut = "got"])]
    /\ items' = IF tasks[t].op = "delete" THEN items \ {tasks[t].target} ELSE items
    /\ UNCHANGED <<sessionVars, page, socialMedias, server, skills, isLoading,
                   modalVars, isSubmitting, confirmDialog, reads, quota>>

\* The create/update/delete response arrives with success=true: the success
\* toast, then `await loadData()`.
MutationSucceeded(t) ==
    /\ tasks[t].pc = "mutating"
    /\ tasks[t].mut = "resp"
    /\ notice' = Success(SuccessMessage(page, tasks[t].op))
    /\ event' = Ev("mutated", t, tasks[t].target)
    /\ tasks' = [tasks EXCEPT ![t] = loadData(page, [tasks[t] EXCEPT !.mut = "got"])]
    /\ UNCHANGED <<sessionVars, page, socialMedias, server, listVars, modalVars, isSubmitting,
                   confirmDialog, reads, quota>>

\* An onSubmit whose catch closes the modal.
MutationFailedClosing(t, failure) ==
    /\ tasks[t].pc = "mutating"
    /\ tasks[t].mut = "sent"
    /\ failure \in Failures
    /\ IF t = SubmitTask
       THEN /\ notice' = Failure(ServiceError(page, tasks[t].op, failure))
            /\ isSubmitting' = FALSE
            /\ CloseModal
       ELSE /\ failure = "transport"
            /\ notice' = Failure(DeleteFailedMessage(page))
            /\ UNCHANGED <<isSubmitting, modalVars>>
    /\ event' = Ev("mutationFailed", t, tasks[t].target)
    /\ tasks' = [tasks EXCEPT ![t] = IdleTask]
    /\ UNCHANGED <<sessionVars, page, socialMedias, server, listVars, confirmDialog, reads, quota>>

\* A failure handler that sends the failed call once more.
MutationFailedRetrying(t, failure) ==
    /\ tasks[t].pc = "mutating"
    /\ tasks[t].mut = "sent"
    /\ failure \in Failures
    /\ event # Ev("mutationFailed", t, tasks[t].target)
    /\ IF t = SubmitTask
       THEN notice' = Failure(ServiceError(page, tasks[t].op, failure))
       ELSE failure = "transport" /\ notice' = Failure(DeleteFailedMessage(page))
    /\ event' = Ev("mutationFailed", t, tasks[t].target)
    /\ UNCHANGED <<sessionVars, page, socialMedias, server, listVars, modalVars,
                   isSubmitting, confirmDialog, reads, tasks, quota>>

\* An onSubmit without its finally block.
MutationFailedSubmitting(t, failure) ==
    /\ tasks[t].pc = "mutating"
    /\ tasks[t].mut = "sent"
    /\ failure \in Failures
    /\ IF t = SubmitTask
       THEN notice' = Failure(ServiceError(page, tasks[t].op, failure))
       ELSE failure = "transport" /\ notice' = Failure(DeleteFailedMessage(page))
    /\ event' = Ev("mutationFailed", t, tasks[t].target)
    /\ tasks' = [tasks EXCEPT ![t] = IdleTask]
    /\ UNCHANGED <<sessionVars, page, socialMedias, server, listVars, modalVars,
                   isSubmitting, confirmDialog, reads, quota>>

\* The create/update/delete call throws.  onSubmit: toast.error(error.message),
\* finally setIsSubmitting(false).  confirmDelete: toast.error('Failed to delete ...').
MutationFailed(t, failure) ==
    /\ tasks[t].pc = "mutating"
    /\ tasks[t].mut = "sent"
    /\ failure \in Failures
    /\ IF t = SubmitTask
       THEN /\ notice' = Failure(ServiceError(page, tasks[t].op, failure))
            /\ isSubmitting' = FALSE
       ELSE /\ failure = "transport"
            /\ notice' = Failure(DeleteFailedMessage(page))
            /\ UNCHANGED isSubmitting
    /\ event' = Ev("mutationFailed", t, tasks[t].target)
    /\ tasks' = [tasks EXCEPT ![t] = IdleTask]
    /\ UNCHANGED <<sessionVars, page, socialMedias, server, listVars, modalVars, confirmDialog, reads,
                   quota>>

----------------------------------------------------------------------------
(* The entity pages: list, modal, submit, delete *)

Network ==
    \/ \E t \in TaskIds : ServerMutate(t)
    \/ \E t \in TaskIds : ServerList(t)
    \/ \E t \in TaskIds : ReceiveList(t)
    \/ \E t \in TaskIds : ReceiveSkills(t)
    \/ \E t \in TaskIds : ListFailed(t)
    \/ \E t \in TaskIds : SkillsFailed(t)
    \/ \E t \in TaskIds : MutationSucceeded(t)
    \/ \E t \in TaskIds, f \in Failures : MutationFailed(t, f)

Next ==
    \/ \E id \in Ids \cup {NoId} : handleOpenModal(id)
    \/ handleCloseModal
    \/ \E v \in FormSamples(page) : FillForm(v)
    \/ \E c \in BOOLEAN : SubmitForm(c)
    \/ \E id \in Ids : handleDelete(id)
    \/ handleConfirm
    \/ dismiss
    \/ Network

Spec == Init /\ [][Next]_vars

\* What the network and the server can do next for the requests of a task.
NetworkStep(t) ==
    \/ ServerMutate(t)
    \/ ServerList(t)
    \/ ReceiveList(t)
    \/ ReceiveSkills(t)
    \/ ListFailed(t)
    \/ SkillsFailed(t)
    \/ MutationSucceeded(t)
    \/ \E f \in Failures : MutationFailed(t, f)

\* The entity pages when every request gets a response or a failure in the
\* end: a promise that is awaited settles.
\* The form is filled in with valid values only: what is typed has no part
\* in how an operation ends.
NextLive ==
    \/ \E id \in Ids \cup {NoId} : handleOpenModal(id)
    \/ handleCloseModal
    \/ FillForm(ValidForm(page))
    \/ \E c \in BOOLEAN : SubmitForm(c)
    \/ \E id \in Ids : handleDelete(id)
    \/ handleConfirm
    \/ dismiss
    \/ Network

SpecLive ==
    Init /\ [][NextLive]_vars /\ \A t \in TaskIds : WF_vars(NetworkStep(t))

----------------------------------------------------------------------------
(* The entity pages when no request fails *)

NextRace ==
    \/ \E id \in Ids \cup {NoId} : handleOpenModal(id)
    \/ handleCloseModal
    \/ FillForm(ValidForm(page))
    \/ \E c \in BOOLEAN : SubmitForm(c)
    \/ \E id \in Ids : handleDelete(id)
    \/ handleConfirm
    \/ dismiss
    \/ \E t \in TaskIds : ServerMutate(t)
    \/ \E t \in TaskIds : ServerList(t)
    \/ \E t \in TaskIds : ReceiveList(t)
    \/ \E t \in TaskIds : ReceiveSkills(t)
    \/ \E t \in TaskIds : MutationSucceeded(t)

SpecRace == Init /\ [][NextRace]_vars

----------------------------------------------------------------------------
(* The forms of all six pages, field by field, without the deletes *)

InitForms ==
    \/ \E p \in Pages : InitPage(p, SeedIds)
    \/ \E held \in {{}, {UserId}} : InitPage(UserPage, held)

NextForms ==
    \/ \E id \in Ids \cup {NoId} : handleOpenModal(id)
    \/ handleCloseModal
    \/ \E v \in FormCases(page) : FillForm(v)
    \/ \E checked \in BOOLEAN : toggleCurrentJob(checked)
    \/ \E icon \in IconInputs, url \in UrlInputs : handleAddSocialMedia(icon, url)
    \/ \E index \in 0 .. (MaxSocial - 1) : handleRemoveSocialMedia(index)
    \/ \E c \in BOOLEAN : SubmitForm(c)
    \/ \E t \in TaskIds : GetRejected(t)
    \/ Network

SpecForms == InitForms /\ [][NextForms]_vars

----------------------------------------------------------------------------
(* The project form with its content images *)

InitProjects == InitPage("projects", Ids)

NextProjects ==
    \/ \E id \in Ids \cup {NoId} : handleOpenModal(id)
    \/ handleCloseModal
    \/ FillForm(ValidForm(page))
    \/ \E files \in FileBatches : handlePreviewImagesChange(files)
    \/ \E i \in 1 .. MaxReads : ReadComplete(i)
    \/ \E index \in 0 .. (MaxFiles + 1) : handleRemovePreviewImage(index)
    \/ \E c \in BOOLEAN : SubmitForm(c)
    \/ Network

SpecProjects == InitProjects /\ [][NextProjects]_vars

----------------------------------------------------------------------------
(* The project form's title and slug, keystroke by keystroke *)

InitSlug == InitPage("projects", SeedIds)

NextSlug ==
    \/ \E id \in Ids \cup {NoId} : handleOpenModal(id)
    \/ handleCloseModal
    \/ \E c \in TitleAlphabet : typeTitle(Append(form.title, c))
    \/ typeTitle(SubSeq(form.title, 1, Len(form.title) - 1))
    \/ \E slug \in SlugInputs : typeSlug(slug)
    \/ \E t \in TaskIds : ServerList(t)
    \/ \E t \in TaskIds : ReceiveList(t)
    \/ \E t \in TaskIds : ReceiveSkills(t)

SpecSlug == InitSlug /\ [][NextSlug]_vars

----------------------------------------------------------------------------
(* The resource clients, method by method *)

InitClient == \E p \in Pages \cup {UserPage} : InitPage(p, SeedIds)

NextClient ==
    \/ \E method \in Methods : Request(method)
    \/ \E response \in Envelopes : Respond(response)
    \/ TransportFails

SpecClient == InitClient /\ [][NextClient]_vars

----------------------------------------------------------------------------
(* The list of an entity page under its search box *)

InitSearch == \E p \in Pages, held \in SUBSET Ids : InitPage(p, held)

NextSearch ==
    \/ \E c \in QueryAlphabet : setSearchQuery(Append(searchQuery, c))
    \/ setSearchQuery(SubSeq(searchQuery, 1, Len(searchQuery) - 1))
    \/ \E t \in TaskIds : ServerList(t)
    \/ \E t \in TaskIds : ReceiveList(t)
    \/ \E t \in TaskIds : ReceiveSkills(t)

SpecSearch == InitSearch /\ [][NextSearch]_vars

----------------------------------------------------------------------------
(* The session: login, logout, restore *)

\* The app is opened at a route, with what an earlier run left in
\* localStorage: nothing, or the token and the user of a login.
InitAuth ==
    /\ page \in {LoginPage, DashboardPage}
    /\ localStorage \in
          {EmptyStorage} \cup {PersistSession(u, TokenOf(u)) : u \in AuthUsers}
    /\ store = StoredSession(localStorage)
    /\ loginPage = IdleLogin
    /\ form = LoginForm
    /\ errors = {}
    /\ notice = NoNotice
    /\ event = Ev("start", MountTask, NoId)
    /\ call = NoCall
    /\ searchQuery = <<>>
    /\ server = {} /\ items = {} /\ skills = {}
    /\ isLoading = FALSE /\ isModalOpen = FALSE /\ isSubmitting = FALSE
    /\ editing = NoId
    /\ confirmDialog = [open |-> FALSE, id |-> NoId]
    /\ isCurrentJob = FALSE
    /\ preview = NoImage
    /\ socialMedias = <<>> /\ previewImages = <<>> /\ previewFiles = <<>>
    /\ reads = <<>>
    /\ tasks = [t \in TaskIds |-> IdleTask]
    /\ quota = MaxOps

NextAuth ==
    \/ \E v \in LoginInputs : typeCredentials(v)
    \/ LoginSubmit
    \/ LoginSucceeded
    \/ \E kind \in LoginFailures : LoginFailed(kind)
    \/ logout
    \/ checkAuth
    \/ \E route \in {LoginPage, DashboardPage} : ProcessStart(route)

SpecAuth == InitAuth /\ [][NextAuth]_vars

----------------------------------------------------------------------------
(* Properties of the entity pages (Spec) *)

\* C1: when a valid form was submitted and the create/update call fails, an
\* error notification carrying the error's message is shown, the modal is
\* still open on the same editing target, no refetch is issued and
\* isSubmitting is false again; until the outcome the modal stays as it was
\* when the form was submitted.
C1_FailedSubmitKeepsModal ==
    /\ tasks[SubmitTask].pc # "idle" =>
          isSubmitting /\ isModalOpen /\ editing = tasks[SubmitTask].target
    /\ (event.op = "mutationFailed" /\ event.task = SubmitTask) =>
          /\ notice.type = "error"
          /\ notice.msg \in
                {ServiceError(page, IF event.id # NoId THEN "update" ELSE "create", f) :
                    f \in Failures}
          /\ isModalOpen
          /\ editing = event.id
          /\ ~isSubmitting
          /\ tasks[SubmitTask] = IdleTask

\* An update failed with the server's message and the modal is still open
\* on the entity.
C1_UpdateFailed ==
    /\ event.op = "mutationFailed" /\ event.task = SubmitTask
    /\ editing # NoId
    /\ notice = Failure(ServerErrorText)

\* C2 as stated: after any failed list() the page is not loading, holds an
\* empty collection and shows an error notification.
C2_FailedListEmpties ==
    event.op = "loadFailed" =>
        isLoading = FALSE /\ items = {} /\ notice.type = "error"

\* C2: a failed list() leaves the page not loading and shows the page's
\* load-failure notification; the collections are left as they were, which
\* is empty for the fetch on mount and the list loaded before for a refetch.
C2_FailedListKeepsCollection ==
    [][\A t \in TaskIds :
          (tasks[t].pc = "loading" /\ tasks'[t].pc = "idle" /\ event'.op = "loadFailed")
          => /\ items' = items
             /\ skills' = skills
             /\ (t = MountTask => items' = {})
             /\ isLoading' = FALSE
             /\ notice' = Failure(LoadFailedMessage(page))]_vars

\* The refetch after a mutation failed and the list loaded before is still
\* shown.
C2_RefetchFailedListShown ==
    event.op = "loadFailed" /\ event.task # MountTask /\ items # {} /\ ~isLoading

\* C3 as stated: while a confirmed delete or its refetch is in flight, the
\* confirmation is still open on the id being deleted.
C3_DialogOpenUntilOutcome ==
    \A t \in DeleteTasks :
        tasks[t].pc # "idle" =>
            confirmDialog.open /\ confirmDialog.id = tasks[t].target

\* C3: confirm sends the delete for the confirmed id and closes the
\* confirmation in the same step, before the outcome is known; a failed
\* delete shows the delete-failure notification and leaves the confirmation
\* as it is (it does not reopen it).
C3_ConfirmClosesAtOnce ==
    [][\A t \in DeleteTasks :
          /\ (tasks[t].pc = "idle" /\ tasks'[t].pc = "mutating")
             => /\ confirmDialog.open
                /\ tasks'[t].target = confirmDialog.id
                /\ tasks'[t].mut = "sent"
                /\ confirmDialog' = [open |-> FALSE, id |-> NoId]
          /\ (tasks[t].pc = "mutating" /\ tasks'[t].pc = "idle")
             => /\ confirmDialog' = confirmDialog
                /\ notice' = Failure(DeleteFailedMessage(page))]_vars

\* A delete failed and the confirmation is closed.
C3_DeleteFailedDialogClosed ==
    /\ event.op = "mutationFailed" /\ event.task \in DeleteTasks
    /\ ~confirmDialog.open
    /\ notice = Failure(DeleteFailedMessage(page))

\* C4: a refetch is issued only after the response of the mutation that
\* triggers it was received: no task has a list request out while its
\* mutation request is unanswered or undelivered, every list request of a
\* submit or delete follows a delivered mutation response, and a failed
\* mutation ends its handler without any list request.
C4_RefetchAfterMutationResponse ==
    \A t \in TaskIds :
        /\ tasks[t].mut \in {"sent", "resp"} =>
              tasks[t].e = NoReq /\ tasks[t].s = "none"
        /\ (t # MountTask /\ (tasks[t].e.st # "none" \/ tasks[t].s # "none")) =>
              tasks[t].mut = "got"
        /\ (event.op = "mutationFailed" /\ event.task = t) => tasks[t] = IdleTask

\* The refetch of a delete is in flight, its delete answered and delivered.
C4_RefetchInFlight ==
    \E t \in DeleteTasks :
        tasks[t].pc = "loading" /\ tasks[t].e.st = "sent" /\ tasks[t].mut = "got"

\* C5: the edit modal and the delete confirmation are never open together,
\* and neither is newly opened while a create/update is in flight.
C5_OneOverlayAtATime ==
    [][/\ ~(isModalOpen' /\ confirmDialog'.open)
       /\ isSubmitting =>
             /\ (isModalOpen' => isModalOpen)
             /\ (confirmDialog'.open => confirmDialog.open)]_vars

----------------------------------------------------------------------------
(* Properties of the forms (SpecForms) *)

\* The fields of a form that break the entity's rules: an empty required
\* text, a slug that does not match ^[a-z0-9-]+$, a year outside
\* 1900..current year + 10, a certificate link that is neither empty nor a URL.
C6_Violations(p, f) ==
    CASE p = "skills" -> {k \in {"name"} : f[k] = ""}
      [] p = "education" -> {k \in {"year", "institutionName"} : f[k] = ""}
      [] p = "experience" ->
            {k \in {"companyName", "location"} : f[k] = ""}
            \cup {k \in {"startYear"} : f[k] < 1900 \/ f[k] > CurrentYear + 10}
            \cup {k \in {"endYear"} :
                    f[k] # <<>> /\ (f[k][1] < 1900 \/ f[k][1] > CurrentYear + 10)}
      [] p = "certifications" ->
            {k \in {"name", "issuingOrganization"} : f[k] = ""}
            \cup {k \in {"year"} : f[k] < 1900 \/ f[k] > CurrentYear + 10}
            \cup {k \in {"certificateLink"} : f[k] # <<>> /\ ~IsUrl(f[k])}
      [] p = "projects" ->
            {k \in {"description", "content"} : f[k] = ""}
            \cup {k \in {"title"} : f[k] = <<>>}
            \cup {k \in {"slug"} :
                    f[k] = <<>> \/ \E i \in 1 .. Len(f[k]) :
                                      f[k][i] \notin {"a", "b", "1", "-"}}
      [] p = UserPage -> {k \in {"name", "role"} : f[k] = ""}

\* C6: submitting a form that violates the schema marks exactly the
\* violating fields with an error and calls nothing: isSubmitting stays
\* false, no request is sent, and the list, the modal and the form are
\* unchanged; only a form without violation is ever sent.
C6_InvalidSubmitAborts ==
    [][/\ (event'.op = "submitInvalid" /\ event' # event) =>
             /\ C6_Violations(page, form) # {}
             /\ errors' = C6_Violations(page, form)
             /\ isSubmitting' = FALSE
             /\ tasks' = tasks
             /\ server' = server
             /\ items' = items /\ skills' = skills
             /\ isModalOpen' = isModalOpen /\ editing' = editing /\ form' = form
       /\ (tasks[SubmitTask].pc = "idle" /\ tasks'[SubmitTask].pc = "mutating") =>
             C6_Violations(page, form) = {}]_vars

\* A project form with a slug outside ^[a-z0-9-]+$ was submitted and its
\* slug field carries the error.
C6_BadSlugRejected ==
    /\ page = "projects"
    /\ event.op = "submitInvalid"
    /\ form.slug = <<"A", " ", "b">>
    /\ errors = {"slug"}
    /\ ~isSubmitting

\* The single image of an entity: the field of the payload, and the
\* reference the server stores.
C9_ImageField(p, payload) ==
    CASE p = "skills" -> payload.icon
      [] p = "projects" -> payload.coverImage
      [] p = UserPage -> payload.profilePhoto
C9_StoredImage(p, id) ==
    CASE p = "skills" -> SkillOf(id).icon
      [] p = "projects" -> ProjectOf(id).coverImage
      [] p = UserPage -> UserOf(id).profilePhoto
C9_UpdateWithoutFile ==
    /\ page \in {"skills", "projects", UserPage}
    /\ tasks[SubmitTask].pc # "idle"
    /\ tasks[SubmitTask].op = "update"
    /\ FileOf(page, form) = NoFile

\* C9 as stated: an update submitted without a new file carries the stored
\* image reference in the payload.
C9_PayloadCarriesStoredImage ==
    C9_UpdateWithoutFile =>
        C9_ImageField(page, tasks[SubmitTask].payload)
            = C9_StoredImage(page, tasks[SubmitTask].target)

\* C9: an update submitted without a new file carries no value at all for
\* the image field (skill icon, project cover image, profile photo); the
\* stored reference is only shown as the preview.
C9_PayloadOmitsImage ==
    C9_UpdateWithoutFile =>
        C9_ImageField(page, tasks[SubmitTask].payload) = Absent

\* The user details are being updated without a new photo while the stored
\* photo is shown as the preview.
C9_UserUpdateWithoutPhoto ==
    /\ page = UserPage
    /\ C9_UpdateWithoutFile
    /\ tasks[SubmitTask].pc = "mutating"
    /\ preview = UserOf(UserId).profilePhoto

\* C10: a submit of the experience form made while "currently working
\* here" is set sends endYear = null.
C10_CurrentJobSendsNullEndYear ==
    (page = "experience" /\ event.op = "submit" /\ isCurrentJob) =>
        tasks[SubmitTask].payload.endYear = NoYear

\* An experience stored with an end year was opened for edit, the toggle
\* was set and the form submitted.
C10_ToggledEditSubmitted ==
    /\ page = "experience"
    /\ event.op = "submit"
    /\ isCurrentJob
    /\ editing # NoId
    /\ ExperienceOf(editing).endYear # NoYear
    /\ tasks[SubmitTask].payload.endYear = NoYear

----------------------------------------------------------------------------
(* Properties of the project form's content images (SpecProjects) *)

\* A preview of an image that is not persisted yet: not one of the stored
\* references of a project.
IsNewPreview(x) ==
    \A id \in Ids :
        \A k \in 1 .. Len(ProjectOf(id).contentImages) :
            x # ProjectOf(id).contentImages[k]
IsStoredImage(x) == ~IsNewPreview(x)

\* The previews of the not-yet-persisted images are the previews of the
\* pending files, in the same order.
Paired(imgs, files) ==
    SelectSeq(imgs, IsNewPreview) = [k \in 1 .. Len(files) |-> readAsDataURL(files[k])]

\* C7: removing a content image by its displayed index, with no preview
\* still being read, keeps the previews of the new images paired with the
\* pending files.
C7_RemoveKeepsPairing ==
    [][(/\ event'.op = "removeImage"
        /\ isModalOpen /\ isModalOpen'
        /\ Len(previewImages') < Len(previewImages)
        /\ reads = <<>>
        /\ Paired(previewImages, previewFiles))
       => Paired(previewImages', previewFiles')]_vars

\* C8: the existingContentImages of an update payload are the stored images
\* the user has not removed, in their order, and hold no preview of a new
\* image.
C8_ExistingImagesAreStored ==
    (tasks[SubmitTask].pc # "idle" /\ tasks[SubmitTask].op = "update") =>
        LET kept == tasks[SubmitTask].payload.existingContentImages
        IN  /\ \A k \in 1 .. Len(kept) : IsStoredImage(kept[k])
            /\ kept = SelectSeq(previewImages, IsStoredImage)

----------------------------------------------------------------------------
(* Properties of the project slug (SpecSlug) *)

\* The words of a lowercased title (its maximal runs of [a-z0-9]) joined by
\* single hyphens, read off the title position by position.
RECURSIVE C11_JoinWords(_, _, _)
C11_JoinWords(l, i, started) ==
    IF i > Len(l) THEN <<>>
    ELSE IF l[i] \in {"a", "b", "1"}
         THEN (IF started /\ l[i - 1] \notin {"a", "b", "1"} THEN <<"-">> ELSE <<>>)
              \o <<l[i]>> \o C11_JoinWords(l, i + 1, TRUE)
         ELSE C11_JoinWords(l, i + 1, started)
C11_Lowered(t) ==
    [i \in 1 .. Len(t) |-> IF t[i] = "A" THEN "a" ELSE IF t[i] = "B" THEN "b" ELSE t[i]]

\* C11: in create mode the slug derived from a non-empty title is the
\* lowercased title with every maximal run of characters outside [a-z0-9]
\* replaced by one hyphen and the hyphens at the edges stripped: it has no
\* leading, trailing or doubled hyphen and, when non-empty, matches
\* ^[a-z0-9-]+$.
C11_DerivedSlug ==
    (page = "projects" /\ event.op = "typeTitle" /\ editing = NoId
        /\ form.title # <<>>) =>
        LET slug == form.slug
        IN  /\ slug = C11_JoinWords(C11_Lowered(form.title), 1, FALSE)
            /\ slug # <<>> =>
                  /\ slug[1] # "-" /\ slug[Len(slug)] # "-"
                  /\ \A i \in 1 .. (Len(slug) - 1) : ~(slug[i] = "-" /\ slug[i + 1] = "-")
                  /\ \A i \in 1 .. Len(slug) : slug[i] \in {"a", "b", "1", "-"}

\* The title "A !b" was typed into the form of a new project and the slug
\* field holds "a-b".
C11_RunCollapsed ==
    /\ event.op = "typeTitle" /\ editing = NoId
    /\ form.title = <<"A", " ", "!", "b">>
    /\ form.slug = <<"a", "-", "b">>

\* C12: while an existing project is open for edit, a change of the title
\* leaves the slug field as it is, whether it holds the project's slug or
\* one typed by the user; the slug follows the title only in create mode.
C12_EditKeepsSlug ==
    [][(isModalOpen /\ isModalOpen' /\ editing # NoId /\ editing' = editing
        /\ form'.title # form.title)
       => form'.slug = form.slug]_vars

\* The title of a project open for edit was changed and the slug field
\* still holds the project's slug.
C12_TitleChangedInEdit ==
    /\ event.op = "typeTitle" /\ editing # NoId /\ isModalOpen
    /\ form.title # ProjectOf(editing).title
    /\ form.slug = ProjectOf(editing).slug

----------------------------------------------------------------------------
(* Properties of the edit form's pre-population (SpecForms) *)

\* The entity of the page with the given id, and the ids of its skills.
C13_Entity(p, id) ==
    CASE p = "skills" -> SkillOf(id)
      [] p = "education" -> EducationOf(id)
      [] p = "experience" -> ExperienceOf(id)
      [] p = "certifications" -> CertificationOf(id)
      [] p = "projects" -> ProjectOf(id)
C13_SkillRecords(p, e) ==
    CASE p = "experience" -> e.experienceSkills
      [] p = "certifications" -> e.certificationSkills
      [] p = "projects" -> e.projectSkills
C13_SkillIdsMatch(p, e) ==
    p \in {"experience", "certifications", "projects"} =>
        /\ Len(form.skillIds) = Len(C13_SkillRecords(p, e))
        /\ {form.skillIds[i] : i \in 1 .. Len(form.skillIds)}
              = {C13_SkillRecords(p, e)[i].skill.id :
                    i \in 1 .. Len(C13_SkillRecords(p, e))}
\* The fields a form shares with the entity, the file inputs aside.
C13_SharedFields(p) ==
    CASE p = "skills" -> {"name"}
      [] p = "education" -> {"year", "institutionName", "description"}
      [] p = "experience" ->
            {"startYear", "endYear", "companyName", "location", "description"}
      [] p = "certifications" ->
            {"name", "issuingOrganization", "year", "description", "certificateLink"}
      [] p = "projects" ->
            {"title", "slug", "description", "content", "publishedAt", "published"}
C13_JustOpenedForEdit ==
    page \in Pages /\ event.op = "openModal" /\ event.id # NoId

----------------------------------------------------------------------------
(* Properties of the resource clients (SpecClient) *)

\* C14: a method that received an envelope with success=false has thrown an
\* error carrying the server's error string, or the default message of the
\* operation when the envelope has none; it has not returned a value.
C14_FailureEnvelopeThrows ==
    (call.via = "response" /\ ~call.response.success) =>
        /\ call.st = "threw"
        /\ call.error = IF call.response.error # "" THEN call.response.error
                        ELSE DefaultMessage(call.service, call.method)

----------------------------------------------------------------------------
(* Properties of the two-list pages' first load (Spec) *)

\* The step takes a two-list page out of Loading.
C15_LeavesLoading == TwoLists(page) /\ isLoading /\ ~isLoading'
\* One of the two requests of the mount load was already delivered before
\* the step, so that the step completes the second.
C15_OtherCompleted ==
    tasks[MountTask].e.st = "got" \/ tasks[MountTask].s = "got"

\* C15 as stated: a two-list page leaves Loading only when both requests
\* have completed, each with a response or a failure.
C15_LeavesLoadingAfterBoth ==
    [][C15_LeavesLoading => C15_OtherCompleted]_vars

\* C15: while a two-list page is Loading, its entity request and its skills
\* request are both out, issued together on mount; the page leaves Loading
\* with both lists shown only when the second of the two responses is
\* delivered, in either order, and otherwise at the first failure of one of
\* them, with the load-failure notification, whatever the state of the
\* other request.
C15_LeavesLoadingOnBothOrFirstFailure ==
    [][/\ (TwoLists(page) /\ isLoading) =>
             /\ tasks[MountTask].pc = "loading"
             /\ tasks[MountTask].e.st # "none"
             /\ tasks[MountTask].s # "none"
       /\ C15_LeavesLoading =>
             \/ /\ event'.op = "loaded"
                /\ C15_OtherCompleted
                /\ items' = tasks[MountTask].e.data
                /\ skills' = SkillIds
             \/ /\ event'.op = "loadFailed"
                /\ notice' = Failure(LoadFailedMessage(page))
                /\ items' = {} /\ skills' = {}]_vars

\* A two-list page has left Loading with both lists shown.
C15_BothListsShown ==
    /\ TwoLists(page) /\ ~isLoading
    /\ event = Ev("loaded", MountTask, NoId)
    /\ items = SeedIds /\ skills = SkillIds

----------------------------------------------------------------------------
(* Properties of the session (SpecAuth) *)

\* C16: when the login call succeeds, the token and the user the server
\* returned are persisted and the session state is that user,
\* authenticated; when it fails, an error notification carries the message
\* of the server (its `error`, else its `message`), and what is persisted
\* and the session state are left as they were.
C16_LoginOutcome ==
    [][/\ event'.op = "loginSucceeded" =>
             LET user == AccountOf(loginPage.identifier)
             IN  /\ loginPage.req = "sent"
                 /\ localStorage'.auth_token = TokenOf(user)
                 /\ localStorage'.user # NoItem
                 /\ getStoredUser(localStorage') = user
                 /\ store' = [user |-> user, isAuthenticated |-> TRUE]
       /\ event'.op = "loginFailed" =>
             /\ loginPage.req = "sent"
             /\ notice'.type = "error"
             /\ event'.id = "error" => notice'.msg = ServerErrorText
             /\ event'.id = "message" => notice'.msg = ServerMessageText
             /\ localStorage' = localStorage
             /\ store' = store]_vars

\* A login was rejected with the server's message while the session of an
\* earlier login is still persisted, and that session is untouched.
C16_RejectedWithMessage ==
    /\ event = Ev("loginFailed", MountTask, "error")
    /\ notice = Failure(ServerErrorText)
    /\ localStorage = PersistSession("ann", TokenOf("ann"))
    /\ store = [user |-> "ann", isAuthenticated |-> TRUE]

\* A step that reads the persisted state into the session: checkAuth, or
\* the creation of the store when the app is loaded.
C17_Restores == event'.op \in {"checkAuth", "start"}

\* C17: logout leaves neither token nor user persisted and the session
\* state without user and unauthenticated; a restore sets the session state
\* from what is persisted and from nothing else, sends no request and
\* writes nothing; and once nothing is persisted, nothing is persisted
\* until a login succeeds, so that a restore after logout leaves the
\* session unauthenticated.
C17_LogoutClearsSession ==
    [][/\ event'.op = "logout" =>
             /\ localStorage' = [auth_token |-> NoToken, user |-> NoItem]
             /\ store' = [user |-> NoUser, isAuthenticated |-> FALSE]
             /\ page' = LoginPage
       /\ C17_Restores =>
             /\ store'.isAuthenticated = (localStorage.auth_token # NoToken)
             /\ store'.user = IF localStorage.user = NoItem THEN NoUser
                                ELSE localStorage.user[2]
             /\ localStorage' = localStorage
             /\ loginPage'.req = "sent" => loginPage.req = "sent"
             /\ tasks' = tasks /\ call' = call
       /\ (localStorage = EmptyStorage /\ event'.op # "loginSucceeded") =>
             /\ localStorage' = EmptyStorage
             /\ ~store'.isAuthenticated]_vars

\* A signed-in user has logged out: nothing is persisted, the session is
\* reset and the login page is shown.
C17_LoggedOut ==
    /\ event.op = "logout" /\ event.id \in AuthUsers
    /\ localStorage = EmptyStorage
    /\ store = [user |-> NoUser, isAuthenticated |-> FALSE]
    /\ page = LoginPage

----------------------------------------------------------------------------
(* Properties of the forms, continued (SpecForms) *)

\* C18: every experience payload sent by create or update with a non-null
\* endYear has endYear >= startYear.
C18_EndYearNotBeforeStart ==
    (/\ page = "experience"
     /\ tasks[SubmitTask].op \in {"create", "update"}
     /\ tasks[SubmitTask].payload.endYear # NoYear) =>
        tasks[SubmitTask].payload.endYear[1] >= tasks[SubmitTask].payload.startYear

\* The number of '|' in an entry of socialMedias.
C19_Separators(entry) == Cardinality({i \in 1 .. Len(entry) : entry[i] = "|"})

\* C19: on the user-details form, whatever links were added and removed,
\* every entry of socialMedias has exactly one '|'.
C19_OneSeparatorEach ==
    page = UserPage =>
        \A i \in 1 .. Len(socialMedias) : C19_Separators(socialMedias[i]) = 1

\* The skill form in create mode, operable, with no icon file selected.
C20_CreateWithoutIcon ==
    /\ page = "skills" /\ FormOperable
    /\ editing = NoId /\ form.icon = NoFile

\* C20: a submit of the skill form in create mode with no icon file sends
\* no create call and starts no refetch, leaves the modal open and
\* isSubmitting false; when the form passes the schema, so that onSubmit
\* runs, the message "Icon is required for new skills" is shown as an error.
C20_SubmitWithoutIconBlocked ==
    [][(C20_CreateWithoutIcon /\ event'.task = SubmitTask
        /\ event'.op \in {"submit", "submitBlocked", "submitInvalid"}) =>
           /\ tasks' = tasks
           /\ server' = server
           /\ isModalOpen' /\ ~isSubmitting'
           /\ editing' = NoId
           /\ Validate(page, form) = {} =>
                 /\ event'.op = "submitBlocked"
                 /\ notice' = [type |-> "error",
                               msg |-> "Icon is required for new skills"]]_vars

\* A named skill without icon was submitted in create mode and blocked.
C20_BlockedWithMessage ==
    /\ page = "skills"
    /\ event = Ev("submitBlocked", SubmitTask, NoId)
    /\ form.name # "" /\ form.icon = NoFile
    /\ isModalOpen /\ ~isSubmitting
    /\ tasks[SubmitTask] = IdleTask
    /\ notice = Failure(IconRequiredMessage)

----------------------------------------------------------------------------
(* Properties of the search box (SpecSearch) *)

\* Two letters that differ at most in case.
C21_SameLetter(c, d) == c = d \/ {c, d} = {"a", "A"} \/ {c, d} = {"b", "B"}

\* The text holds the query as a substring, case ignored.
C21_Holds(text, q) ==
    \E k \in 0 .. (Len(text) - Len(q)) :
        \A i \in 1 .. Len(q) : C21_SameLetter(text[k + i], q[i])

\* The texts of an item in which the page's search looks.
C21_Fields(p, id) ==
    LET described == IF DescriptionText(id) = NullLink THEN {}
                     ELSE {DescriptionText(id)}
    IN  CASE p = "skills" -> {NameText(id)}
          [] p = "education" -> {NameText(id)} \cup described
          [] p \in {"experience", "certifications"} ->
                {NameText(id), SecondText(id)} \cup described
          [] p = "projects" ->
                {NameText(id), SecondText(id)}
                \cup {SkillName(SkillsOf(id)[i].skill.id) : i \in 1 .. Len(SkillsOf(id))}

\* The position of an id in the loaded list.
C21_Position(id) == CHOOSE i \in 1 .. Len(Listed(items)) : Listed(items)[i] = id

\* The displayed list is the sub-sequence, in loaded order, of the loaded
\* items one of whose fields holds the query.
C21_ShowsMatches ==
    LET shown == filtered(page, Listed(items), searchQuery)
    IN  /\ {shown[i] : i \in 1 .. Len(shown)} =
              {id \in items : \E text \in C21_Fields(page, id) :
                                  C21_Holds(text, searchQuery)}
        /\ \A i, j \in 1 .. Len(shown) :
              i < j => C21_Position(shown[i]) < C21_Position(shown[j])
        /\ searchQuery = <<>> => shown = Listed(items)

\* C21: on every entity page and for every query, the displayed list is
\* exactly the sub-sequence, in loaded order, of the loaded items one of
\* whose searched fields contains the query as a case-insensitive
\* substring (every item for the empty query), and a change of the query
\* leaves the loaded collection as it was.
C21_SearchFilters ==
    /\ [](page \in Pages => C21_ShowsMatches)
    /\ [][event'.op = "search" => items' = items /\ server' = server]_vars

\* Two items are loaded on the experience page and a query typed in mixed
\* case shows only the second of them, which holds it in lower case.
C21_MixedCaseQueryNarrows ==
    /\ page = "experience" /\ ~isLoading
    /\ items = {"a", "b"}
    /\ searchQuery = <<"b", "A">>
    /\ filtered(page, Listed(items), searchQuery) = <<"b">>

----------------------------------------------------------------------------
(* Properties of the local collection (Spec) *)

\* C22: the list a page holds changes only in the step that receives the
\* response of a list request, and becomes the collection that response
\* carries; the steps of create, update, delete, cancel and dismiss leave
\* it as it was.
C22_CollectionOnlyFromList ==
    [][/\ items' # items =>
             /\ event'.op = "loaded"
             /\ tasks[event'.task].pc = "loading"
             /\ tasks[event'.task].e.st \in {"resp", "got"}
             /\ items' = tasks[event'.task].e.data
       /\ event'.op \in {"submit", "mutated", "mutationFailed", "requestDelete",
                         "confirmDelete", "dismiss", "closeModal", "openModal"} =>
             items' = items]_vars

\* A delete was confirmed and its refetch has brought the list without the
\* deleted item.
C22_DeletedItemGoneAfterRefetch ==
    /\ event.op = "loaded"
    /\ event.task \in DeleteTasks
    /\ event.id # NoId
    /\ event.id \notin items
    /\ items = server

----------------------------------------------------------------------------
(* Properties of the entity pages when requests settle (SpecLive) *)

\* C23: every mount, submit and confirmed delete comes to its end, and the
\* page is then neither Loading nor, for a submit, Submitting; Loading and
\* Submitting always end, whatever requests fail.
C23_EveryOperationEnds ==
    /\ isLoading ~> ~isLoading
    /\ isSubmitting ~> ~isSubmitting
    /\ \A t \in TaskIds :
          (tasks[t].pc # "idle") ~>
              (/\ tasks[t].pc = "idle"
               /\ ~isLoading
               /\ t = SubmitTask => ~isSubmitting)

\* The refetch that follows a successful submit has failed: nothing is in
\* flight, and the page is neither Loading nor Submitting.
C23_RefetchFailedAfterSubmit ==
    /\ event.op = "loadFailed" /\ event.task = SubmitTask
    /\ \A t \in TaskIds : tasks[t].pc = "idle"
    /\ ~isLoading /\ ~isSubmitting

----------------------------------------------------------------------------
(* Properties of the calls an operation issues (Spec) *)

\* The requests of a task that are out.
C24_Out(task) ==
    (IF task.mut = "sent" THEN {"mutation"} ELSE {})
    \cup (IF task.e.st = "sent" THEN {"list"} ELSE {})
    \cup (IF task.s = "sent" THEN {"skills"} ELSE {})

\* C24: the mount issues one fetch per list; a create, update or delete
\* call is issued only by the step of the submit or confirm that starts the
\* task, one per step; a refetch, one fetch per list, only by the step
\* that receives the success of that task's mutation; and the step in
\* which a call fails issues no call and ends the task, so that nothing is
\* sent again until the user acts.
C24_NoAutomaticRetry ==
    /\ C24_Out(tasks[MountTask]) =
          {"list"} \cup (IF TwoLists(page) THEN {"skills"} ELSE {})
    /\ \A t \in TaskIds \ {MountTask} : C24_Out(tasks[t]) = {}
    /\ [][\A t \in TaskIds :
            LET issued == C24_Out(tasks'[t]) \ C24_Out(tasks[t])
            IN  /\ "mutation" \in issued =>
                      /\ event'.op \in {"submit", "confirmDelete"}
                      /\ event'.task = t
                      /\ tasks[t].pc = "idle"
                      /\ \A u \in TaskIds \ {t} : tasks'[u] = tasks[u]
                /\ issued \cap {"list", "skills"} # {} =>
                      /\ event'.op = "mutated" /\ event'.task = t
                      /\ tasks[t].mut = "resp"
                      /\ tasks[t].e.st = "none" /\ tasks[t].s = "none"
                      /\ issued =
                            {"list"} \cup (IF TwoLists(page) THEN {"skills"} ELSE {})
                /\ (event'.task = t /\ event' # event
                    /\ event'.op \in {"mutationFailed", "loadFailed"}) =>
                      /\ tasks'[t] = IdleTask
                      /\ \A u \in TaskIds : C24_Out(tasks'[u]) \subseteq C24_Out(tasks[u])]_vars

\* A confirmed delete has failed: the task is over and no request is out.
C24_DeleteFailedNothingOut ==
    /\ event.op = "mutationFailed"
    /\ event.task \in DeleteTasks
    /\ \A t \in TaskIds : C24_Out(tasks[t]) = {}
    /\ event.id \in server

----------------------------------------------------------------------------
(* Properties of the delete confirmation (Spec) *)

\* The step closes the confirmation.
C25_Closes == confirmDialog.open /\ ~confirmDialog'.open

\* The delete call of the step's confirm: one task leaves idle with a
\* delete request for the pending id, and no other task changes.
C25_OneDeleteOfPending ==
    \E t \in DeleteTasks :
        /\ tasks[t] = IdleTask
        /\ tasks'[t] = [IdleTask EXCEPT !.pc = "mutating", !.op = "delete",
                                         !.target = confirmDialog.id, !.mut = "sent"]
        /\ \A u \in TaskIds \ {t} : tasks'[u] = tasks[u]

\* C25: the confirmation pends on the id whose delete was requested;
\* confirm issues exactly one delete call, for that id; dismiss issues no
\* call and leaves the collection, the modal and the form as they were;
\* both reset the pending target, and a delete call is only ever issued
\* for the id of the confirmation that is open.
C25_ConfirmDeletesPendingOnly ==
    /\ [](IF confirmDialog.open THEN confirmDialog.id \in Ids
          ELSE confirmDialog.id = NoId)
    /\ [][/\ C25_Closes =>
                /\ confirmDialog' = [open |-> FALSE, id |-> NoId]
                /\ items' = items /\ server' = server
                /\ UNCHANGED modalVars
                /\ \/ event'.op = "dismiss" /\ tasks' = tasks
                   \/ event'.op = "confirmDelete" /\ C25_OneDeleteOfPending
          /\ (~confirmDialog.open /\ confirmDialog'.open) =>
                /\ event'.op = "requestDelete"
                /\ confirmDialog'.id = event'.id
                /\ tasks' = tasks
          /\ \A t \in TaskIds :
                (tasks'[t].op = "delete" /\ tasks[t].op # "delete") =>
                    /\ confirmDialog.open
                    /\ tasks'[t].target = confirmDialog.id]_vars

\* The delete of an item the server holds was requested and dismissed: the
\* item is still listed and held, nothing is pending and no call is out.
C25_Dismissed ==
    /\ event.op = "dismiss"
    /\ event.id \in items /\ event.id \in server
    /\ confirmDialog = [open |-> FALSE, id |-> NoId]
    /\ \A t \in DeleteTasks : tasks[t] = IdleTask

----------------------------------------------------------------------------
(* Properties of a submit in flight (Spec) *)

\* The tasks that carry a create or an update.
C26_Submits == {t \in TaskIds : tasks[t].op \in {"create", "update"}}

----------------------------------------------------------------------------
(* Properties of overlapping refetches (SpecRace) *)

\* C27: when no request fails and none is out any more, the list the page
\* holds is the collection the server holds.
C27_SettledListIsCurrent ==
    (\A t \in TaskIds : tasks[t].pc = "idle") => items = server

----------------------------------------------------------------------------
(* Properties of the preview reads (SpecProjects) *)

\* C28: in the project form, whenever no preview is being read any more,
\* the previews of not-yet-persisted images are the previews of the
\* pending files, one each and in the same order; in particular a read
\* that completes after the modal was closed has left no preview.
C28_PreviewsMatchPendingFiles ==
    (page = "projects" /\ reads = <<>>) => Paired(previewImages, previewFiles)

----------------------------------------------------------------------------
(* Properties of the user-details singleton (SpecForms) *)

\* C29: on the user-details page a submit sends a create when the server
\* holds no record and an update when it holds one, whatever the outcome
\* of the loads before it.
C29_CreateOnlyWithoutRecord ==
    [][(/\ page = UserPage
        /\ event'.op = "submit"
        /\ tasks[SubmitTask].pc = "idle"
        /\ tasks'[SubmitTask].pc = "mutating") =>
           tasks'[SubmitTask].op = IF server = {} THEN "create" ELSE "update"]_vars

----------------------------------------------------------------------------
(* Properties of a failed load of two lists (Spec) *)

\* The step ends the load of task t.
C30_LoadEnds(t) == tasks[t].pc = "loading" /\ tasks'[t].pc = "idle"

\* C30: on a page that loads two lists, the step in which a load ends in
\* failure leaves both lists as they were, also when the other list had
\* been received, shows the load-failure notification and leaves no
\* request of that load behind; and a load-failure notification is raised
\* only by the step that ends a load, one for one.
C30_FailedLoadChangesNeitherList ==
    [][TwoLists(page) =>
         /\ \A t \in TaskIds :
               (C30_LoadEnds(t) /\ event'.op = "loadFailed") =>
                   /\ items' = items /\ skills' = skills
                   /\ notice' = Failure(LoadFailedMessage(page))
                   /\ tasks'[t] = IdleTask
                   /\ \A u \in TaskIds \ {t} : tasks'[u] = tasks[u]
         /\ (notice' = Failure(LoadFailedMessage(page)) /\ notice' # notice) =>
               \E t \in TaskIds : C30_LoadEnds(t) /\ event' = Ev("loadFailed", t, tasks[t].target)
         /\ (event'.op = "loadFailed" /\ event' # event) =>
               Cardinality({t \in TaskIds : C30_LoadEnds(t)}) = 1]_vars

\* On a two-list page the refetch after a delete has failed: the page
\* still lists the deleted item and its skills, and shows the load failure.
C30_RefetchFailedListsKept ==
    /\ TwoLists(page)
    /\ event.op = "loadFailed" /\ event.task \in DeleteTasks
    /\ event.id \in items /\ event.id \notin server
    /\ skills = SkillIds
    /\ notice = Failure(LoadFailedMessage(page))

====
